---- MODULE Spec2Model ----
(***************************************************************************)
(* Verification model of mm_bronze: the ingestion-to-storage pipeline      *)
(* (storage/api, storage/sftp) and the sandboxed SFTP virtual filesystem   *)
(* (ingestion/sftp/server.py).                                             *)
(***************************************************************************)
EXTENDS Integers, Sequences, FiniteSets, TLC

(***************************************************************************)
(* Bounds of the model.                                                    *)
(***************************************************************************)
\* longest topic a single consumer is run against
MaxMsgs == 2
\* longest topic of each consumer when both consumers run side by side
MaxBothMsgs == 1

(***************************************************************************)
(* Data: payload bytes, uploaded files, envelopes.                         *)
(***************************************************************************)
Absent == "ABSENT"
NoValue == "None"

\* payload byte strings: the 5 bytes "hello", the empty byte string, and the
\* 2 bytes C3 A9 (the UTF-8 encoding of a non-ASCII character)
Payloads == {"hello", "", "c3a9"}

Size(data) == CASE data = "hello" -> 5 [] data = "c3a9" -> 2 [] OTHER -> 0

\* files landed by the file-drop front door, named by their absolute path
UploadFiles == {"/uploads/alice/a.json", "/uploads/bob/b"}

Uploader(file_path) == IF file_path = "/uploads/alice/a.json" THEN "alice" ELSE "bob"

\* pathlib.Path(p).suffix, .stem and .name of the modelled upload paths
PathSuffix(file_path) ==
    CASE file_path = "/uploads/alice/a.json" -> ".json"
      [] file_path = "/uploads/alice/SCAN.PDF" -> ".PDF"
      [] file_path = "/uploads/bob/archive.tar.gz" -> ".gz"
      [] OTHER -> ""

PathStem(file_path) ==
    CASE file_path = "/uploads/alice/a.json" -> "a"
      [] file_path = "/uploads/alice/SCAN.PDF" -> "SCAN"
      [] file_path = "/uploads/bob/archive.tar.gz" -> "archive.tar"
      [] OTHER -> "b"

PathName(file_path) ==
    CASE file_path = "/uploads/alice/a.json" -> "a.json"
      [] file_path = "/uploads/alice/SCAN.PDF" -> "SCAN.PDF"
      [] file_path = "/uploads/bob/archive.tar.gz" -> "archive.tar.gz"
      [] OTHER -> "b"

\* str.lstrip(".") of a suffix
LstripDot(s) ==
    CASE s = ".json" -> "json" [] s = ".PDF" -> "PDF" [] s = ".gz" -> "gz" [] OTHER -> s

\* the string is left as it is
SameCase(s) == s

\* str.lower() of the strings the model uses
Lower(s) ==
    CASE s = "JSON" -> "json" [] s = "PDF" -> "pdf" [] OTHER -> s

Variants == {"api", "sftp"}

\* hashlib.sha256(): update(data), then digest(); the real digests of the
\* modelled payloads, in hex, kept as the first 16 characters and the
\* remaining 48
Sha256Digest(data) ==
    CASE data = "hello" ->
           [hex16 |-> "2cf24dba5fb0a30e", rest |-> "26e83b2ac5b9e29e1b161e5c1fa7425e73043362938b9824"]
      [] data = "c3a9" ->
           [hex16 |-> "4a99557e4033c353", rest |-> "9de2eb65472017cad5f9557f7a0625a09f1c3f6e2ba69c4c"]
      [] OTHER ->
           [hex16 |-> "e3b0c44298fc1c14", rest |-> "9afbf4c8996fb92427ae41e4649b934ca495991b7852b855"]

\* storage/api/processing.py: compute_fingerprint
compute_fingerprint(data) == Sha256Digest(data)

\* a hasher that is read before it was fed
DigestWithoutUpdate(data) == Sha256Digest("")

\* storage/sftp/processing.py: compute_fingerprint
sftp_compute_fingerprint(data) == Sha256Digest(data)

\* storage/utils.py: compute_fingerprint
utils_compute_fingerprint(data) == Sha256Digest(data)

\* the three modules that define compute_fingerprint
FingerprintModules == {"storage.api.processing", "storage.sftp.processing", "storage.utils"}

ComputeFingerprintOf(module, data) ==
    CASE module = "storage.api.processing" -> compute_fingerprint(data)
      [] module = "storage.sftp.processing" -> sftp_compute_fingerprint(data)
      [] OTHER -> utils_compute_fingerprint(data)

\* the whole hex string of the fingerprint
WholeFp(fingerprint) == fingerprint.hex16 \o fingerprint.rest

\* fp_hex[:16]
ShortFp(fingerprint) == fingerprint.hex16

\* base64.b64encode(raw).decode("ascii") of the modelled payloads
B64Encode(data) ==
    CASE data = "hello" -> "aGVsbG8=" [] data = "c3a9" -> "w6k=" [] OTHER -> ""

\* a body base64.b64decode rejects
BadBody == "invalid-base64-data!"

B64Decodable(body) == body \in {"aGVsbG8=", "w6k=", ""}

\* the decoded bytes read as ASCII text, bytes outside ASCII dropped
B64DecodeAscii(body) == IF body = "aGVsbG8=" THEN "hello" ELSE ""

\* base64.b64decode(envelope["body"])
B64Decode(body) ==
    CASE body = "aGVsbG8=" -> "hello" [] body = "w6k=" -> "c3a9" [] OTHER -> ""

\* a message value orjson.loads rejects
BadJson == [raw |-> "{not json"]

JsonLoadable(raw_msg) == "raw" \notin DOMAIN raw_msg

\* the envelope ingest_entity publishes for the k-th request, a POST of the
\* body data to /text/hl7/v2/lab (uuid4 is fresh; validate_payload accepts
\* every body that decodes as UTF-8)
ApiEnvelope(k, data) ==
    [uuid |-> <<"api", k>>, format |-> "text", content_type |-> "hl7",
     version |-> "v2", subtype |-> "lab", body |-> B64Encode(data)]

ApiMsgsAt(k) ==
    {BadJson,
     [format |-> "text", content_type |-> "hl7", version |-> "v2",
      subtype |-> "lab", body |-> B64Encode("hello")],
     [ApiEnvelope(k, "hello") EXCEPT !.body = BadBody]}
    \cup {ApiEnvelope(k, data) : data \in Payloads}

\* the file-landed event _publish_upload_event builds
SftpEvent(file_path, size) ==
    [path |-> file_path, size |-> size, username |-> Uploader(file_path)]

SftpMsgs ==
    {BadJson, [size |-> 0, username |-> "alice"]}
    \cup {SftpEvent(f, Size("hello")) : f \in UploadFiles}

\* identifier process_sftp_message draws with uuid4 for its k-th message
SftpUid(k) == <<"uuid4", k>>

Uids == {<<"api", k>> : k \in 1..MaxMsgs} \cup {SftpUid(k) : k \in 1..MaxMsgs}

TopicsUpTo(n) ==
    [api : UNION {{t \in [1..m -> UNION {ApiMsgsAt(k) : k \in 1..n}] :
                       \A k \in 1..m : t[k] \in ApiMsgsAt(k)} : m \in 0..n},
     sftp : UNION {[1..m -> SftpMsgs] : m \in 0..n}]

(***************************************************************************)
(* State.                                                                  *)
(***************************************************************************)
VARIABLES
    topic,          \* variant -> sequence of raw messages on its topic
    uploads,        \* upload path -> bytes of the landed file, or Absent
    pc,             \* variant -> position of the consumer's main loop
    offset,         \* variant -> index of the message being processed
    committed,      \* variant -> last committed offset
    loc,            \* variant -> locals of process_message / process_sftp_message
    raw_api_ingest, \* rows of ingestion.raw_api_ingest
    raw_ingestion,  \* rows of ingestion.raw_ingestion
    ingestion_log,  \* object_id -> its rows of ingestion.ingestion_log, in order
    storage,        \* object store: set of [path, data]
    events,         \* variant -> history of the consumer's effects
    fsys,           \* the nodes of the SFTP server's filesystem
    session,        \* the ProductionSFTPServer of the current connection
    lastOp,         \* the last operation of the session and what it acted on
    handles,        \* the ProductionSFTPHandle objects open() returned, in order
    notifier,       \* the event-loop thread: its globals and the publishes handed to it
    calls,          \* the calls of library functions made so far: function, arguments, result
    boot            \* the start-up of a process's Kafka client: init_async_consumer / _producer

pipeVars == <<topic, uploads, pc, offset, committed, loc, raw_api_ingest,
              raw_ingestion, ingestion_log, storage, events>>

vfsVars == <<fsys, session, lastOp, handles, notifier>>

libVars == <<calls, boot>>

vars == <<pipeVars, vfsVars, libVars>>

\* no client is being started
NoBoot == [client |-> "none", max_retries |-> 0, base_backoff |-> 0, attempt |-> 0,
           state |-> "idle", outcomes |-> <<>>, sleeps |-> <<>>,
           clients |-> [consumer |-> "none", producer |-> "none"]]

NoLoc == [uid |-> <<>>, payload_bytes |-> NoValue, fingerprint |-> NoValue,
          path |-> NoValue, file_path |-> NoValue, status |-> NoValue,
          tx |-> "none", row |-> NoValue, adapter |-> NoValue, ret |-> NoValue]

InitPipe(n) ==
    /\ topic \in TopicsUpTo(n)
    /\ uploads \in [UploadFiles -> Payloads \cup {Absent}]
    /\ pc = [c \in Variants |-> "idle"]
    /\ offset = [c \in Variants |-> 0]
    /\ committed = [c \in Variants |-> 0]
    /\ loc = [c \in Variants |-> NoLoc]
    /\ raw_api_ingest = {}
    /\ raw_ingestion = {}
    /\ ingestion_log = [u \in Uids |-> <<>>]
    /\ storage = {}
    /\ events = [c \in Variants |-> <<>>]
    /\ calls = <<>>
    /\ boot = NoBoot

(***************************************************************************)
(* Helpers of the pipeline.                                                *)
(***************************************************************************)
Entry(status, message) == [status |-> status, message |-> message]

\* the entry of object_id is overwritten: one row per identifier
log_ingestion_upsert(log, object_id, status, message) ==
    [log EXCEPT ![object_id] = <<Entry(status, message)>>]

\* INSERT INTO ingestion.ingestion_log(object_id, status, message)
log_ingestion(log, object_id, status, message) ==
    [log EXCEPT ![object_id] = Append(@, Entry(status, message))]

\* the history of consumer c extended by the effects es of its current message
Record(c, es) ==
    [events EXCEPT ![c] = @ \o [i \in 1..Len(es) |-> [k |-> offset[c], e |-> es[i]]]]

\* the uniqueness constraint on the fingerprint column of a table
UniqueViolation(table, fingerprint) ==
    \E r \in table : r.fingerprint = fingerprint

\* build_path_by_fp(event, fp_hex)
\* build_path_by_fp(event, fp_hex, base_prefix): the segments that are joined
\* and the two parts of the file name
build_path_by_fp_under(event, fingerprint, base_prefix) ==
    [dirs |-> <<base_prefix, event.content_type, event.format, event.subtype>>,
     short_fp |-> ShortFp(fingerprint),
     file_ext |-> Lower(event.format)]

\* build_path_by_fp(event, fp_hex) with base_prefix at its default
build_path_by_fp(event, fingerprint) ==
    build_path_by_fp_under(event, fingerprint, "bronze")

\* build_path_for_sftp_file(original_path, fp_hex, username)
build_path_for_sftp_file(original_path, fingerprint, username) ==
    [dirs |-> <<"bronze", "sftp", username>>,
     short_fp |-> ShortFp(fingerprint),
     file_ext |-> IF LstripDot(PathSuffix(original_path)) = "" THEN "bin"
                  ELSE LstripDot(PathSuffix(original_path))]

\* content_type_map.get(file_ext, 'binary')
ContentTypeOf(file_ext) ==
    CASE file_ext = "json" -> "json"
      [] file_ext = "xml" -> "xml"
      [] file_ext \in {"txt", "csv"} -> "text"
      [] OTHER -> "binary"

\* the row store_metadata inserts into ingestion.raw_api_ingest
ApiRow(event, fingerprint, path) ==
    [object_id |-> event.uuid, format |-> event.format,
     content_type |-> event.content_type, subtype |-> event.subtype,
     data_version |-> event.version, storage_path |-> path,
     fingerprint |-> fingerprint]

\* the row store_sftp_metadata inserts into ingestion.raw_ingestion
SftpRow(file_uuid, original_path, username, size, fingerprint, storage_path) ==
    [object_id |-> file_uuid, ingestion_source |-> "sftp",
     format |-> IF Lower(LstripDot(PathSuffix(original_path))) = "" THEN "unknown"
                ELSE Lower(LstripDot(PathSuffix(original_path))),
     content_type |-> ContentTypeOf(Lower(LstripDot(PathSuffix(original_path)))),
     subtype |-> IF PathStem(original_path) = "" THEN "document"
                 ELSE PathStem(original_path),
     data_version |-> "1.0", storage_path |-> storage_path,
     fingerprint |-> fingerprint,
     source_metadata |-> [username |-> username, original_path |-> original_path,
                          original_filename |-> PathName(original_path),
                          file_size |-> size, upload_method |-> "sftp"]]

\* the parameters of AsyncFS.write after self, and the call write_bytes makes:
\* self.write(path, obj, lambda o: o, True, mkdirs=mkdirs)
WriteParams == <<"path", "obj", "serializer", "mkdirs">>

WriteBytesArgs == <<"path", "obj", "lambda o: o", "True">>

WriteBytesKeywords == {"mkdirs"}

\* Python raises TypeError when a keyword names a parameter that a positional
\* argument has already bound
MultipleValues(params, args, keywords) ==
    \E i \in 1..Len(args) : i <= Len(params) /\ params[i] \in keywords

\* AsyncFS.write_bytes(path, obj) returns without raising
write_bytes_ok(adapter_ok) ==
    /\ ~MultipleValues(WriteParams, WriteBytesArgs, WriteBytesKeywords)
    /\ adapter_ok

\* gzip.compress and its inverse
Gzip(data) == <<"gzip", data>>

Gunzip(data) == data[2]

\* bytes written without compression, and the bytes read back from them
Uncompressed(data) == <<"raw", data>>

AsWritten(data) == data[2]

\* path.rstrip("/") + ".gz"
GzPath(path) == <<path, ".gz">>

\* the object store after AsyncFS.write put data at path, under the default
\* compression: the compressed bytes at path + ".gz"
Put(store, path, data) ==
    {o \in store : o.path # GzPath(path)} \cup {[path |-> GzPath(path), data |-> Gzip(data)]}

\* AsyncFS.read_bytes: the bytes of the object, decompressed when the name
\* ends in ".gz" (compression="infer"); Absent when open raises
read_bytes(store, path) ==
    IF \E o \in store : o.path = path
    THEN LET o == CHOOSE x \in store : x.path = path
         IN  IF path[2] = ".gz" THEN Gunzip(o.data) ELSE AsWritten(o.data)
    ELSE Absent

\* the value write_to_storage hands back to the orchestrator: neither branch
\* has a return statement
write_to_storage_returns(written) == NoValue

\* the state of the storage backend during a write
Adapter(adapter_ok) == IF adapter_ok THEN "up" ELSE "down"

Msg(c) == topic[c][offset[c]]

(***************************************************************************)
(* The consumers' main loops (storage/api/app.py, storage/sftp/app.py).    *)
(***************************************************************************)
\* the next message is asked for without awaiting the commit of the last one
CanFetchBeforeCommit(c) == pc[c] \in {"idle", "stored", "processed", "except"}

\* the body of the loop has been awaited to its end: the iterator is asked
\* for the next message
CanFetch(c) == pc[c] = "idle"

\* async for msg in consumer
Fetch(c) ==
    /\ CanFetch(c)
    /\ offset[c] < Len(topic[c])
    /\ offset' = [offset EXCEPT ![c] = @ + 1]
    /\ pc' = [pc EXCEPT ![c] = "fetched"]
    /\ loc' = [loc EXCEPT ![c] = NoLoc]
    /\ events' = [events EXCEPT ![c] = Append(@, [k |-> offset[c] + 1, e |-> "fetch"])]
    /\ UNCHANGED <<topic, uploads, committed, raw_api_ingest, raw_ingestion,
                   ingestion_log, storage>>
    /\ UNCHANGED <<vfsVars, libVars>>

(***************************************************************************)
(* process_message (storage/api/processing.py).  An exception leaving it   *)
(* leaves main's loop: the consumer is closed and the process ends.        *)
(***************************************************************************)
\* orjson.loads, envelope["uuid"], log_ingestion(uid, "started", None)
ApiStart ==
    /\ pc["api"] = "fetched"
    /\ IF JsonLoadable(Msg("api")) /\ "uuid" \in DOMAIN Msg("api")
       THEN /\ ingestion_log' = log_ingestion(ingestion_log, Msg("api").uuid, "started", NoValue)
            /\ loc' = [loc EXCEPT !["api"].uid = Msg("api").uuid]
            /\ pc' = [pc EXCEPT !["api"] = "started"]
            /\ events' = Record("api", <<"log_started">>)
       ELSE /\ pc' = [pc EXCEPT !["api"] = "crashed"]
            /\ events' = Record("api", <<"raise">>)
            /\ UNCHANGED <<ingestion_log, loc>>
    /\ UNCHANGED <<topic, uploads, offset, committed, raw_api_ingest, raw_ingestion, storage>>
    /\ UNCHANGED <<vfsVars, libVars>>

\* base64.b64decode, compute_fingerprint, build_path_by_fp, then the first
\* statement of store_metadata's transaction: INSERT INTO raw_api_ingest
ApiInsert ==
    /\ pc["api"] = "started"
    /\ IF B64Decodable(Msg("api").body)
       THEN LET payload_bytes == B64Decode(Msg("api").body)
                fingerprint == compute_fingerprint(payload_bytes)
                path == build_path_by_fp(Msg("api"), fingerprint)
                dup == UniqueViolation(raw_api_ingest, fingerprint)
            IN  /\ loc' = [loc EXCEPT !["api"] =
                     [@ EXCEPT !.payload_bytes = payload_bytes,
                               !.fingerprint = fingerprint,
                               !.path = path,
                               !.status = IF dup THEN "duplicate" ELSE "ingested",
                               !.tx = IF dup THEN "aborted" ELSE "active",
                               !.row = IF dup THEN NoValue
                                       ELSE ApiRow(Msg("api"), fingerprint, path)]]
                /\ pc' = [pc EXCEPT !["api"] = "inserted"]
                /\ events' = Record("api", IF dup THEN <<"unique_violation">> ELSE <<"insert">>)
       ELSE /\ pc' = [pc EXCEPT !["api"] = "crashed"]
            /\ events' = Record("api", <<"raise">>)
            /\ UNCHANGED loc
    /\ UNCHANGED <<topic, uploads, offset, committed, raw_api_ingest, raw_ingestion,
                   ingestion_log, storage>>
    /\ UNCHANGED <<vfsVars, libVars>>

\* the second statement of store_metadata's transaction, INSERT INTO
\* ingestion_log, and the end of the transaction block.  After a statement of
\* a transaction failed, the server rejects every further statement of it
\* (InFailedSQLTransactionError), and leaving the block by an exception rolls
\* the transaction back.
ApiLogStatus ==
    /\ pc["api"] = "inserted"
    /\ IF loc["api"].tx = "aborted"
       THEN /\ pc' = [pc EXCEPT !["api"] = "crashed"]
            /\ loc' = [loc EXCEPT !["api"].tx = "rolled_back"]
            /\ events' = Record("api", <<"record_raise", "raise">>)
            /\ UNCHANGED <<raw_api_ingest, ingestion_log>>
       ELSE /\ raw_api_ingest' = raw_api_ingest \cup {loc["api"].row}
            /\ ingestion_log' = log_ingestion(ingestion_log, loc["api"].uid,
                                              loc["api"].status, NoValue)
            /\ loc' = [loc EXCEPT !["api"].tx = "committed"]
            /\ pc' = [pc EXCEPT !["api"] = "recorded"]
            /\ events' = Record("api", <<"log_status", "record_return">>)
    /\ UNCHANGED <<topic, uploads, offset, committed, raw_ingestion, storage>>
    /\ UNCHANGED <<vfsVars, libVars>>

\* write_to_storage: fs.write_bytes, then log_ingestion "complete", or
\* log_ingestion "failed" in the except branch; nothing is raised or returned
ApiWrite ==
    /\ pc["api"] = "recorded"
    /\ \E adapter_ok \in BOOLEAN :
         IF write_bytes_ok(adapter_ok)
         THEN /\ storage' = Put(storage, loc["api"].path, loc["api"].payload_bytes)
              /\ ingestion_log' = log_ingestion(ingestion_log, loc["api"].uid, "complete", NoValue)
              /\ events' = Record("api", <<"write_ok", "log_complete">>)
              /\ loc' = [loc EXCEPT !["api"].adapter = Adapter(adapter_ok),
                                    !["api"].ret = write_to_storage_returns(TRUE)]
         ELSE /\ ingestion_log' = log_ingestion(ingestion_log, loc["api"].uid, "failed", "str(e)")
              /\ events' = Record("api", <<"write_raise", "log_failed">>)
              /\ loc' = [loc EXCEPT !["api"].adapter = Adapter(adapter_ok),
                                    !["api"].ret = write_to_storage_returns(FALSE)]
              /\ UNCHANGED storage
    /\ pc' = [pc EXCEPT !["api"] = "stored"]
    /\ UNCHANGED <<topic, uploads, offset, committed, raw_api_ingest, raw_ingestion>>
    /\ UNCHANGED <<vfsVars, libVars>>

\* await consumer.commit() after process_message returned
ApiCommit ==
    /\ pc["api"] = "stored"
    /\ committed' = [committed EXCEPT !["api"] = offset["api"]]
    /\ pc' = [pc EXCEPT !["api"] = "idle"]
    /\ events' = Record("api", <<"commit">>)
    /\ UNCHANGED <<topic, uploads, offset, loc, raw_api_ingest, raw_ingestion,
                   ingestion_log, storage>>
    /\ UNCHANGED <<vfsVars, libVars>>

\* a missing file is read as the empty byte string
read_uploaded_file_or_empty(file_path) ==
    IF uploads[file_path] = Absent THEN "" ELSE uploads[file_path]

\* read_uploaded_file: the bytes of the file, or Absent when open raises
read_uploaded_file(file_path) == uploads[file_path]

(***************************************************************************)
(* process_sftp_message (storage/sftp/processing.py).  main catches every  *)
(* exception that leaves it and commits all the same.                      *)
(***************************************************************************)
\* orjson.loads, uuid4, log_ingestion(file_uuid, "started", None),
\* envelope["path"]: both failures are raised outside the try block
SftpStart ==
    /\ pc["sftp"] = "fetched"
    /\ IF ~JsonLoadable(Msg("sftp"))
       THEN /\ pc' = [pc EXCEPT !["sftp"] = "except"]
            /\ events' = Record("sftp", <<"raise">>)
            /\ UNCHANGED <<ingestion_log, loc>>
       ELSE /\ ingestion_log' = log_ingestion(ingestion_log, SftpUid(offset["sftp"]),
                                              "started", NoValue)
            /\ IF "path" \in DOMAIN Msg("sftp")
               THEN /\ loc' = [loc EXCEPT !["sftp"] =
                          [@ EXCEPT !.uid = SftpUid(offset["sftp"]),
                                    !.file_path = Msg("sftp").path]]
                    /\ pc' = [pc EXCEPT !["sftp"] = "started"]
                    /\ events' = Record("sftp", <<"log_started">>)
               ELSE /\ loc' = [loc EXCEPT !["sftp"].uid = SftpUid(offset["sftp"])]
                    /\ pc' = [pc EXCEPT !["sftp"] = "except"]
                    /\ events' = Record("sftp", <<"log_started", "raise">>)
    /\ UNCHANGED <<topic, uploads, offset, committed, raw_api_ingest, raw_ingestion, storage>>
    /\ UNCHANGED <<vfsVars, libVars>>

\* read_uploaded_file, compute_fingerprint, build_path_for_sftp_file, then the
\* first statement of store_sftp_metadata's transaction: INSERT INTO
\* raw_ingestion.  A file that cannot be read raises into the except branch of
\* process_sftp_message: log_ingestion "failed", raise.
SftpInsert ==
    /\ pc["sftp"] = "started"
    /\ IF read_uploaded_file(loc["sftp"].file_path) # Absent
       THEN LET file_path == loc["sftp"].file_path
                payload_bytes == read_uploaded_file(file_path)
                fingerprint == sftp_compute_fingerprint(payload_bytes)
                path == build_path_for_sftp_file(file_path, fingerprint, Msg("sftp").username)
                dup == UniqueViolation(raw_ingestion, fingerprint)
            IN  /\ loc' = [loc EXCEPT !["sftp"] =
                     [@ EXCEPT !.payload_bytes = payload_bytes,
                               !.fingerprint = fingerprint,
                               !.path = path,
                               !.status = IF dup THEN "duplicate" ELSE "ingested",
                               !.tx = IF dup THEN "aborted" ELSE "active",
                               !.row = IF dup THEN NoValue
                                       ELSE SftpRow(loc["sftp"].uid, file_path,
                                                    Msg("sftp").username, Msg("sftp").size,
                                                    fingerprint, path)]]
                /\ pc' = [pc EXCEPT !["sftp"] = "inserted"]
                /\ events' = Record("sftp", IF dup THEN <<"unique_violation">> ELSE <<"insert">>)
                /\ UNCHANGED ingestion_log
       ELSE /\ ingestion_log' = log_ingestion(ingestion_log, loc["sftp"].uid, "failed", "str(e)")
            /\ pc' = [pc EXCEPT !["sftp"] = "except"]
            /\ events' = Record("sftp", <<"read_raise", "log_failed", "raise">>)
            /\ UNCHANGED loc
    /\ UNCHANGED <<topic, uploads, offset, committed, raw_api_ingest, raw_ingestion, storage>>
    /\ UNCHANGED <<vfsVars, libVars>>

\* the second statement of store_sftp_metadata's transaction and the end of
\* the transaction block (as in ApiLogStatus); the exception of an aborted
\* transaction reaches the except branch of process_sftp_message
SftpLogStatus ==
    /\ pc["sftp"] = "inserted"
    /\ IF loc["sftp"].tx = "aborted"
       THEN /\ ingestion_log' = log_ingestion(ingestion_log, loc["sftp"].uid, "failed", "str(e)")
            /\ loc' = [loc EXCEPT !["sftp"].tx = "rolled_back"]
            /\ pc' = [pc EXCEPT !["sftp"] = "except"]
            /\ events' = Record("sftp", <<"record_raise", "log_failed", "raise">>)
            /\ UNCHANGED raw_ingestion
       ELSE /\ raw_ingestion' = raw_ingestion \cup {loc["sftp"].row}
            /\ ingestion_log' = log_ingestion(ingestion_log, loc["sftp"].uid,
                                              loc["sftp"].status, "SFTP upload")
            /\ loc' = [loc EXCEPT !["sftp"].tx = "committed"]
            /\ pc' = [pc EXCEPT !["sftp"] = "recorded"]
            /\ events' = Record("sftp", <<"log_status", "record_return">>)
    /\ UNCHANGED <<topic, uploads, offset, committed, raw_api_ingest, storage>>
    /\ UNCHANGED <<vfsVars, libVars>>

\* write_to_storage of the file-drop variant: as ApiWrite
SftpWrite ==
    /\ pc["sftp"] = "recorded"
    /\ \E adapter_ok \in BOOLEAN :
         IF write_bytes_ok(adapter_ok)
         THEN /\ storage' = Put(storage, loc["sftp"].path, loc["sftp"].payload_bytes)
              /\ ingestion_log' = log_ingestion(ingestion_log, loc["sftp"].uid, "complete", NoValue)
              /\ events' = Record("sftp", <<"write_ok", "log_complete">>)
              /\ loc' = [loc EXCEPT !["sftp"].adapter = Adapter(adapter_ok),
                                    !["sftp"].ret = write_to_storage_returns(TRUE)]
         ELSE /\ ingestion_log' = log_ingestion(ingestion_log, loc["sftp"].uid, "failed", "str(e)")
              /\ events' = Record("sftp", <<"write_raise", "log_failed">>)
              /\ loc' = [loc EXCEPT !["sftp"].adapter = Adapter(adapter_ok),
                                    !["sftp"].ret = write_to_storage_returns(FALSE)]
              /\ UNCHANGED storage
    /\ pc' = [pc EXCEPT !["sftp"] = "stored"]
    /\ UNCHANGED <<topic, uploads, offset, committed, raw_api_ingest, raw_ingestion>>
    /\ UNCHANGED <<vfsVars, libVars>>

\* cleanup_uploaded_file, called whatever write_to_storage did: os.remove if
\* the file exists, log_ingestion "cleaned_up"; an OSError of os.remove is
\* logged as "cleanup_failed"
SftpCleanup ==
    /\ pc["sftp"] = "stored"
    /\ IF uploads[loc["sftp"].file_path] # Absent
       THEN \E remove_ok \in BOOLEAN :
              IF remove_ok
              THEN /\ uploads' = [uploads EXCEPT ![loc["sftp"].file_path] = Absent]
                   /\ ingestion_log' = log_ingestion(ingestion_log, loc["sftp"].uid,
                                                     "cleaned_up", "Removed original file")
                   /\ events' = Record("sftp", <<"remove", "log_cleaned_up">>)
              ELSE /\ ingestion_log' = log_ingestion(ingestion_log, loc["sftp"].uid,
                                                     "cleanup_failed", "str(e)")
                   /\ events' = Record("sftp", <<"remove_raise", "log_cleanup_failed">>)
                   /\ UNCHANGED uploads
       ELSE UNCHANGED <<uploads, ingestion_log, events>>
    /\ pc' = [pc EXCEPT !["sftp"] = "processed"]
    /\ UNCHANGED <<topic, offset, committed, loc, raw_api_ingest, raw_ingestion, storage>>
    /\ UNCHANGED <<vfsVars, libVars>>

\* await consumer.commit() after process_sftp_message returned
SftpCommit ==
    /\ pc["sftp"] = "processed"
    /\ committed' = [committed EXCEPT !["sftp"] = offset["sftp"]]
    /\ pc' = [pc EXCEPT !["sftp"] = "idle"]
    /\ events' = Record("sftp", <<"commit">>)
    /\ UNCHANGED <<topic, uploads, offset, loc, raw_api_ingest, raw_ingestion,
                   ingestion_log, storage>>
    /\ UNCHANGED <<vfsVars, libVars>>

\* await consumer.commit() in main's except branch
SftpCommitAfterError ==
    /\ pc["sftp"] = "except"
    /\ committed' = [committed EXCEPT !["sftp"] = offset["sftp"]]
    /\ pc' = [pc EXCEPT !["sftp"] = "idle"]
    /\ events' = Record("sftp", <<"commit">>)
    /\ UNCHANGED <<topic, uploads, offset, loc, raw_api_ingest, raw_ingestion,
                   ingestion_log, storage>>
    /\ UNCHANGED <<vfsVars, libVars>>

(***************************************************************************)
(* The sandboxed virtual filesystem (ingestion/sftp/server.py).            *)
(* A path is the sequence of its components; <<>> is the filesystem root.  *)
(***************************************************************************)
\* most nodes the filesystem holds when an operation creates one more
MaxNodes == 8
\* most requests the server answers on one connection
MaxRequests == 2
\* most symbolic links followed when a path is resolved (ELOOP beyond it)
MaxLinkHops == 3

\* os.getcwd() of the server: settings.sftp_upload_root
upload_root == <<"uploads">>

\* UserManager.users after load: username -> permissions
LoadedUsers ==
    [alice |-> {"read", "write"}, bob |-> {"write"}, carol |-> {"read", "delete"}]

\* server.authenticated_user handed to ProductionSFTPServer.__init__: a loaded
\* user, None, or a name the directory does not hold
NoUser == "None"

SessionUsers == DOMAIN LoadedUsers \cup {NoUser, "mallory"}

\* UserManager.get_user_permissions
get_user_permissions(username) ==
    IF username \in DOMAIN LoadedUsers THEN LoadedUsers[username] ELSE {}

\* the paths a client sends, as sequences of components; a leading "/" is the
\* component "/": the root, plain names, paths through a link, a path with
\* "..", an absolute path
ClientPaths ==
    {<<>>, <<"f">>, <<"d">>, <<"lnk">>, <<"lnk", "lnk">>, <<"..", "bob", "f">>,
     <<"/", "uploads", "bob", "f">>}

\* path.lstrip('/')
RECURSIVE lstrip(_)
lstrip(path) ==
    IF path # <<>> /\ Head(path) = "/" THEN lstrip(Tail(path)) ELSE path

\* open flags as the set of their bits; O_RDONLY is 0, the absence of both
\* O_WRONLY and O_RDWR
OpenFlags ==
    {acc \cup opt : acc \in {{}, {"O_WRONLY"}, {"O_RDWR"}},
                    opt \in {{}, {"O_CREAT"}, {"O_TRUNC"}, {"O_APPEND"}}}

Dir(path) == [path |-> path, kind |-> "dir", target |-> <<>>, data |-> ""]

File(path, data) == [path |-> path, kind |-> "file", target |-> <<>>, data |-> data]

Link(path, target) == [path |-> path, kind |-> "link", target |-> target, data |-> ""]

Exists(fs, path) == \E n \in fs : n.path = path

NodeAt(fs, path) == CHOOSE n \in fs : n.path = path

Kind(fs, path) == IF Exists(fs, path) THEN NodeAt(fs, path).kind ELSE "none"

Front(path) == SubSeq(path, 1, Len(path) - 1)

IsPrefix(a, b) == Len(a) <= Len(b) /\ SubSeq(b, 1, Len(a)) = a

Children(fs, path) == {n \in fs : Len(n.path) = Len(path) + 1 /\ IsPrefix(path, n.path)}

\* os.path.abspath of an absolute path: "." dropped, ".." pops a component
RECURSIVE NormFrom(_, _)
NormFrom(acc, rest) ==
    IF rest = <<>> THEN acc
    ELSE NormFrom(
            CASE Head(rest) = ".." -> (IF acc = <<>> THEN <<>> ELSE Front(acc))
              [] Head(rest) = "." -> acc
              [] OTHER -> Append(acc, Head(rest)),
            Tail(rest))

abspath(path) == NormFrom(<<>>, path)

\* the result of a resolution that ran into too many links
Loop == <<"ELOOP">>

\* the node the kernel reaches from directory cur along the components rest,
\* following every symbolic link on the way (link targets are absolute)
RECURSIVE ResolveFrom(_, _, _, _)
ResolveFrom(fs, cur, rest, hops) ==
    IF rest = <<>> THEN cur
    ELSE IF Kind(fs, Append(cur, Head(rest))) = "link"
         THEN IF hops = 0 THEN Loop
              ELSE ResolveFrom(fs, <<>>,
                               NodeAt(fs, Append(cur, Head(rest))).target \o Tail(rest),
                               hops - 1)
         ELSE ResolveFrom(fs, Append(cur, Head(rest)), Tail(rest), hops)

\* Path(p).resolve(), and the node a call that follows links acts on (os.stat,
\* os.open, os.listdir, os.makedirs)
Resolve(fs, path) == ResolveFrom(fs, <<>>, path, MaxLinkHops)

\* the node a call acts on that does not follow a link in the last component
\* (os.lstat, os.remove, os.rename, os.rmdir)
ResolveParent(fs, path) ==
    IF path = <<>> THEN <<>>
    ELSE IF Resolve(fs, Front(path)) = Loop THEN Loop
         ELSE Append(Resolve(fs, Front(path)), path[Len(path)])

\* a component of path is a link to nothing
DanglingOn(fs, path) ==
    \E n \in 1..Len(path) :
        /\ Kind(fs, ResolveParent(fs, SubSeq(path, 1, n))) = "link"
        /\ ~Exists(fs, Resolve(fs, SubSeq(path, 1, n)))

\* ProductionSFTPServer._realpath: the path the operation goes on with
full_path(sess, path) == abspath(sess.user_root \o lstrip(path))

\* ProductionSFTPServer._realpath: relative_to raises no ValueError
InsideRoot(fs, sess, path) ==
    /\ Resolve(fs, full_path(sess, path)) # Loop
    /\ Resolve(fs, sess.user_root) # Loop
    /\ IsPrefix(Resolve(fs, sess.user_root), Resolve(fs, full_path(sess, path)))

\* ProductionSFTPServer._check_permission
permission_map(operation) ==
    CASE operation = "read" -> "read"
      [] operation = "write" -> "write"
      [] operation = "delete" -> "delete"
      [] operation = "mkdir" -> "write"
      [] operation = "rmdir" -> "delete"
      [] operation = "rename" -> "write"
      [] OTHER -> "read"

check_permission(sess, operation) ==
    /\ sess.current_user # NoUser
    /\ permission_map(operation) \in get_user_permissions(sess.current_user)

NoSession == [current_user |-> NoUser, user_root |-> <<>>, open |-> FALSE, served |-> 0,
              thread |-> "ready"]

NoOp == [op |-> "none", result |-> "none", acted |-> {}, readable |-> FALSE,
         writable |-> FALSE]

Op(op, result, acted) ==
    [op |-> op, result |-> result, acted |-> acted, readable |-> FALSE,
     writable |-> FALSE]

\* the filesystems a server may be started on: the upload root with the
\* directories of alice and bob, a file in each, and possibly a link in
\* either, or a directory of carol with a file in it
InitialFilesystems ==
    {{Dir(upload_root), Dir(<<"uploads", "alice">>), Dir(<<"uploads", "bob">>),
      File(<<"uploads", "alice", "f">>, "hello"), File(<<"uploads", "bob", "f">>, "hello")}
     \cup a \cup b :
        a \in {{}, {Link(<<"uploads", "alice", "lnk">>, <<"uploads", "bob">>)},
                   {Link(<<"uploads", "alice", "lnk">>, <<"uploads", "alice", "f">>)}},
        b \in {{}, {Link(<<"uploads", "bob", "lnk">>, <<"uploads", "alice", "f">>)}}}
    \cup {{Dir(upload_root), Dir(<<"uploads", "alice">>), Dir(<<"uploads", "bob">>),
           Dir(<<"uploads", "carol">>),
           File(<<"uploads", "alice", "f">>, "hello"), File(<<"uploads", "bob", "f">>, "hello"),
           File(<<"uploads", "carol", "f">>, "hello")}}

\* the entry points that start the server, and the module whose global
\* _event_loop each sets with set_global_event_loop
EntryPoints == {"server.main", "app.main"}

LoopModule(entry) == IF entry = "server.main" THEN "server" ELSE "app"

\* the event-loop thread of a server started by entry, before
\* start_async_components has run
NoNotifier(entry) ==
    [entry |-> entry, producer |-> "none",
     event_loop |-> [m \in {"server", "app"} |-> FALSE], tasks |-> <<>>]

InitVfs ==
    /\ fsys \in InitialFilesystems
    /\ session = NoSession
    /\ lastOp = NoOp
    /\ handles = <<>>
    /\ notifier = NoNotifier("server.main")

\* os.makedirs(path, exist_ok=True) on a resolved path: the missing ancestors
\* and the directory itself
MakeDirs(fs, path) ==
    fs \cup {Dir(SubSeq(path, 1, n)) : n \in {m \in 1..Len(path) : ~Exists(fs, SubSeq(path, 1, m))}}

\* every ancestor of path is a directory
AncestorsAreDirs(fs, path) ==
    \A n \in 1..(Len(path) - 1) : Kind(fs, SubSeq(path, 1, n)) = "dir"

\* the components of a user name taken as a relative path
NameParts(username) ==
    IF username = "alice/inbox" THEN <<"alice", "inbox">> ELSE <<username>>

\* self.user_root: os.path.join(self.upload_root, self.current_user), or the
\* upload root when there is no authenticated user
UserRoot(user) ==
    IF user # NoUser THEN upload_root \o NameParts(user) ELSE upload_root

\* ProductionSFTPServer.__init__ for the connection the model follows
StartSession(user) ==
    /\ ~session.open
    /\ session' = [current_user |-> user,
                   user_root |-> UserRoot(user),
                   open |-> TRUE, served |-> 0, thread |-> "ready"]
    /\ fsys' = IF user # NoUser THEN MakeDirs(fsys, Append(upload_root, user)) ELSE fsys
    /\ lastOp' = NoOp
    /\ UNCHANGED <<pipeVars, libVars, handles, notifier>>

\* the connection has a request left to send
Serving == session.open /\ session.served < MaxRequests /\ session.thread = "ready"

Served == session' = [session EXCEPT !.served = @ + 1]

\* the gates every operation starts with: _check_permission returns
\* SFTP_PERMISSION_DENIED, then _realpath raises SFTPError
Gate(operation, paths) ==
    IF ~check_permission(session, operation) THEN "denied"
    ELSE IF \E path \in paths : ~InsideRoot(fsys, session, path) THEN "rejected"
    ELSE "pass"

Refused(op, operation, paths) ==
    /\ Gate(operation, paths) # "pass"
    /\ lastOp' = Op(op, Gate(operation, paths), {})
    /\ UNCHANGED fsys

\* ProductionSFTPServer.list_folder: os.listdir, then os.stat of every entry
list_folder(path) ==
    /\ Serving
    /\ \/ Refused("list_folder", "read", {path})
       \/ /\ Gate("read", {path}) = "pass"
          /\ LET dir == Resolve(fsys, full_path(session, path))
                 entries == {Resolve(fsys, n.path) : n \in Children(fsys, dir)}
             IN  lastOp' = IF Kind(fsys, dir) = "dir" /\ \A e \in entries : Exists(fsys, e)
                           THEN Op("list_folder", "ok", {dir} \cup entries)
                           ELSE Op("list_folder", "no_such_file",
                                   IF Kind(fsys, dir) = "dir" THEN {dir} \cup entries ELSE {dir})
          /\ UNCHANGED fsys
    /\ Served
    /\ UNCHANGED <<pipeVars, libVars, handles, notifier>>

\* ProductionSFTPServer.stat: os.stat
stat(path) ==
    /\ Serving
    /\ \/ Refused("stat", "read", {path})
       \/ /\ Gate("read", {path}) = "pass"
          /\ LET node == Resolve(fsys, full_path(session, path))
             IN  lastOp' = Op("stat", IF Exists(fsys, node) THEN "ok" ELSE "no_such_file", {node})
          /\ UNCHANGED fsys
    /\ Served
    /\ UNCHANGED <<pipeVars, libVars, handles, notifier>>

\* ProductionSFTPServer.lstat: os.lstat
lstat(path) ==
    /\ Serving
    /\ \/ Refused("lstat", "read", {path})
       \/ /\ Gate("read", {path}) = "pass"
          /\ LET node == ResolveParent(fsys, full_path(session, path))
             IN  lastOp' = Op("lstat", IF Exists(fsys, node) THEN "ok" ELSE "no_such_file", {node})
          /\ UNCHANGED fsys
    /\ Served
    /\ UNCHANGED <<pipeVars, libVars, handles, notifier>>

\* the handle open() returns: writefile for O_WRONLY, readfile and writefile
\* for O_RDWR, readfile otherwise; filename is the path _realpath returned
ProductionSFTPHandle(flags, username, filename) ==
    [filename |-> filename, username |-> username,
     readfile |-> "O_WRONLY" \notin flags,
     writefile |-> flags \cap {"O_WRONLY", "O_RDWR"} # {},
     closed |-> FALSE]

\* O_TRUNC with O_RDONLY is unspecified by POSIX: the file may or may not be cut
TruncChoices(flags) ==
    IF "O_TRUNC" \notin flags THEN {FALSE}
    ELSE IF flags \cap {"O_WRONLY", "O_RDWR"} # {} THEN {TRUE}
    ELSE BOOLEAN

\* ProductionSFTPServer.open: os.open, then the handle by the access mode
open(path, flags) ==
    /\ Serving
    /\ LET operation == IF flags \cap {"O_WRONLY", "O_RDWR", "O_CREAT"} # {}
                        THEN "write" ELSE "read"
       IN  \/ Refused("open", operation, {path}) /\ UNCHANGED handles
           \/ /\ Gate(operation, {path}) = "pass"
              /\ LET node == Resolve(fsys, full_path(session, path))
                     creates == /\ Kind(fsys, node) = "none"
                                /\ "O_CREAT" \in flags
                                /\ node \notin {Loop, <<>>}
                                /\ Kind(fsys, Front(node)) = "dir"
                                /\ ~DanglingOn(fsys, Front(full_path(session, path)))
                 IN  /\ creates => Cardinality(fsys) < MaxNodes
                     /\ IF Kind(fsys, node) = "file" \/ creates
                        THEN /\ \E truncates \in TruncChoices(flags) :
                                  fsys' = IF creates THEN fsys \cup {File(node, "")}
                                          ELSE IF truncates
                                          THEN (fsys \ {NodeAt(fsys, node)}) \cup {File(node, "")}
                                          ELSE fsys
                             /\ lastOp' = [op |-> "open", result |-> "ok", acted |-> {node},
                                           readable |-> "O_WRONLY" \notin flags,
                                           writable |-> flags \cap {"O_WRONLY", "O_RDWR"} # {}]
                             /\ handles' = Append(handles,
                                              ProductionSFTPHandle(flags, session.current_user,
                                                                   full_path(session, path)))
                        ELSE /\ lastOp' = Op("open", "failure", {node})
                             /\ UNCHANGED <<fsys, handles>>
    /\ Served
    /\ UNCHANGED <<pipeVars, libVars, notifier>>

\* ProductionSFTPServer.remove: os.remove
remove(path) ==
    /\ Serving
    /\ \/ Refused("remove", "delete", {path})
       \/ /\ Gate("delete", {path}) = "pass"
          /\ LET node == ResolveParent(fsys, full_path(session, path))
             IN  IF Kind(fsys, node) \in {"file", "link"}
                 THEN /\ fsys' = fsys \ {NodeAt(fsys, node)}
                      /\ lastOp' = Op("remove", "ok", {node})
                 ELSE /\ lastOp' = Op("remove", "failure", {node})
                      /\ UNCHANGED fsys
    /\ Served
    /\ UNCHANGED <<pipeVars, libVars, handles, notifier>>

\* os.rename(old, new) is possible: old exists, new is in an existing
\* directory and is absent, or a non-directory replaced by a non-directory,
\* or an empty directory replaced by a directory
CanRename(fs, old, new) ==
    /\ Exists(fs, old) /\ old # <<>> /\ new \notin {Loop, <<>>}
    /\ Kind(fs, Front(new)) = "dir"
    /\ ~(IsPrefix(old, new) /\ old # new)
    /\ \/ Kind(fs, new) = "none"
       \/ Kind(fs, new) # "dir" /\ Kind(fs, old) # "dir"
       \/ Kind(fs, new) = "dir" /\ Kind(fs, old) = "dir" /\ Children(fs, new) = {}

\* the filesystem after os.rename(old, new): old and all below it move
Renamed(fs, old, new) ==
    IF old = new THEN fs
    ELSE {n \in fs : ~IsPrefix(old, n.path) /\ n.path # new}
         \cup {[n EXCEPT !.path = new \o SubSeq(n.path, Len(old) + 1, Len(n.path))] :
                  n \in {m \in fs : IsPrefix(old, m.path)}}

\* ProductionSFTPServer.rename: os.rename
rename(oldpath, newpath) ==
    /\ Serving
    /\ \/ Refused("rename", "rename", {oldpath, newpath})
       \/ /\ Gate("rename", {oldpath, newpath}) = "pass"
          /\ LET old == ResolveParent(fsys, full_path(session, oldpath))
                 new == ResolveParent(fsys, full_path(session, newpath))
             IN  IF CanRename(fsys, old, new)
                 THEN /\ fsys' = Renamed(fsys, old, new)
                      /\ lastOp' = Op("rename", "ok", {old, new})
                 ELSE /\ lastOp' = Op("rename", "failure", {old, new})
                      /\ UNCHANGED fsys
    /\ Served
    /\ UNCHANGED <<pipeVars, libVars, handles, notifier>>

\* ProductionSFTPServer.mkdir: os.makedirs(path, exist_ok=True)
mkdir(path) ==
    /\ Serving
    /\ \/ Refused("mkdir", "mkdir", {path})
       \/ /\ Gate("mkdir", {path}) = "pass"
          /\ LET node == Resolve(fsys, full_path(session, path))
                 makes == /\ node # Loop
                          /\ ~DanglingOn(fsys, full_path(session, path))
                          /\ Kind(fsys, node) \in {"none", "dir"}
                          /\ \A n \in 1..(Len(node) - 1) :
                                Kind(fsys, SubSeq(node, 1, n)) \in {"none", "dir"}
             IN  /\ makes => Cardinality(MakeDirs(fsys, node)) <= MaxNodes
                             \/ MakeDirs(fsys, node) = fsys
                 /\ IF makes
                    THEN /\ fsys' = MakeDirs(fsys, node)
                         /\ lastOp' = Op("mkdir", "ok", {node})
                    ELSE /\ lastOp' = Op("mkdir", "failure", {node})
                         /\ UNCHANGED fsys
    /\ Served
    /\ UNCHANGED <<pipeVars, libVars, handles, notifier>>

\* ProductionSFTPServer.rmdir: os.rmdir
rmdir(path) ==
    /\ Serving
    /\ \/ Refused("rmdir", "rmdir", {path})
       \/ /\ Gate("rmdir", {path}) = "pass"
          /\ LET node == ResolveParent(fsys, full_path(session, path))
             IN  IF Kind(fsys, node) = "dir" /\ Children(fsys, node) = {}
                 THEN /\ fsys' = fsys \ {NodeAt(fsys, node)}
                      /\ lastOp' = Op("rmdir", "ok", {node})
                 ELSE /\ lastOp' = Op("rmdir", "failure", {node})
                      /\ UNCHANGED fsys
    /\ Served
    /\ UNCHANGED <<pipeVars, libVars, handles, notifier>>

(***************************************************************************)
(* The upload completion notifier: ProductionSFTPHandle.close on the       *)
(* connection thread, start_async_components and _publish_upload_event on  *)
(* the event-loop thread.                                                  *)
(***************************************************************************)
\* start_async_components: init_async_producer, then set_global_event_loop
\* of the module that holds it; when the producer cannot be started,
\* init_async_producer raises and the thread ends with no loop set
StartAsyncComponents ==
    /\ notifier.producer = "none"
    /\ \E started \in BOOLEAN :
         notifier' = IF started
                     THEN [notifier EXCEPT !.producer = "started",
                                           !.event_loop[LoopModule(notifier.entry)] = TRUE]
                     ELSE [notifier EXCEPT !.producer = "failed"]
    /\ UNCHANGED <<pipeVars, libVars, fsys, session, lastOp, handles>>

\* the connection thread blocks until the publishes handed over are through
AfterHandOffWaits(tasks) ==
    IF \E n \in 1..Len(tasks) : tasks[n].state = "pending" THEN "waiting" ELSE "ready"

\* asyncio.run_coroutine_threadsafe returns a future at once, and close does
\* not ask for its result
AfterHandOff(tasks) == "ready"

\* run_coroutine_threadsafe(self._publish_upload_event(), event_loop)
HandOff(tasks, h) == Append(tasks, [h |-> h, state |-> "pending", event |-> NoValue])

\* ProductionSFTPHandle.close (server.py): the loop is the global _event_loop
\* of server.py, read when the handle is closed
close(h) ==
    /\ session.open /\ session.thread = "ready"
    /\ LET publishes == /\ handles[h].writefile /\ ~handles[h].closed
                        /\ notifier.event_loop["server"]
           tasks == IF publishes THEN HandOff(notifier.tasks, h) ELSE notifier.tasks
       IN  /\ notifier' = [notifier EXCEPT !.tasks = tasks]
           /\ session' = [session EXCEPT !.thread = AfterHandOff(tasks)]
    /\ handles' = [handles EXCEPT ![h].closed = TRUE]
    /\ lastOp' = Op("close", "ok", {})
    /\ UNCHANGED <<pipeVars, libVars, fsys>>

\* the payload of _publish_upload_event: os.path.getsize of the file when the
\* coroutine runs, 0 when the path does not exist
UploadEvent(fs, handle) ==
    [path |-> handle.filename,
     size |-> IF Kind(fs, Resolve(fs, handle.filename)) = "file"
              THEN Size(NodeAt(fs, Resolve(fs, handle.filename)).data) ELSE 0,
     event_type |-> "sftp_upload_complete",
     username |-> handle.username, source |-> "sftp_server"]

\* _publish_upload_event on the event-loop thread: send_and_wait returns, or
\* raises and the exception is logged
PublishUploadEvent(n) ==
    /\ notifier.tasks[n].state = "pending"
    /\ \E acked \in BOOLEAN :
         notifier' = [notifier EXCEPT
            !.tasks[n] = [h |-> @.h,
                          state |-> IF acked THEN "published" ELSE "failed",
                          event |-> UploadEvent(fsys, handles[notifier.tasks[n].h])]]
    /\ UNCHANGED <<pipeVars, libVars, fsys, session, lastOp, handles>>

(***************************************************************************)
(* Calls of the path builders on their own (storage/api/processing.py,     *)
(* storage/sftp/processing.py).                                            *)
(***************************************************************************)
MaxCalls == 2

\* "/".join(parts)
RECURSIVE Join(_)
Join(parts) ==
    IF Len(parts) = 1 THEN parts[1] ELSE parts[1] \o "/" \o Join(Tail(parts))

\* the string the builders return: "/".join([..., f"{short_fp}.{file_ext}"])
PathString(path) == Join(Append(path.dirs, path.short_fp \o "." \o path.file_ext))

\* envelopes by content type, declared format and subtype
PathEvents ==
    [content_type : {"fhir", "hl7"}, format : {"json", "JSON"}, subtype : {"patient"}]

\* hex digests: of b"hello", of b"", and one that shares its first 16
\* characters with the digest of b"hello"
PathFingerprints ==
    {compute_fingerprint("hello"), compute_fingerprint(""),
     [hex16 |-> "2cf24dba5fb0a30e", rest |-> "000000000000000000000000000000000000000000000000"]}

\* base_prefix as the caller passes it, NoValue when it is left out
BasePrefixes == {NoValue, "custom"}

OriginalPaths ==
    UploadFiles \cup {"/uploads/alice/SCAN.PDF", "/uploads/bob/archive.tar.gz"}

PathUsers == {"alice", "bob"}

BuildPathByFp(event, fingerprint, base_prefix) ==
    /\ Len(calls) < MaxCalls
    /\ calls' = Append(calls,
         [fn |-> "build_path_by_fp",
          args |-> [event |-> event, fingerprint |-> fingerprint,
                    base_prefix |-> base_prefix],
          ret |-> IF base_prefix = NoValue
                  THEN build_path_by_fp(event, fingerprint)
                  ELSE build_path_by_fp_under(event, fingerprint, base_prefix)])
    /\ UNCHANGED <<pipeVars, vfsVars, boot>>

BuildPathForSftpFile(original_path, fingerprint, username) ==
    /\ Len(calls) < MaxCalls
    /\ calls' = Append(calls,
         [fn |-> "build_path_for_sftp_file",
          args |-> [original_path |-> original_path, fingerprint |-> fingerprint,
                    username |-> username],
          ret |-> build_path_for_sftp_file(original_path, fingerprint, username)])
    /\ UNCHANGED <<pipeVars, vfsVars, boot>>

ComputeFingerprint(module, data) ==
    /\ Len(calls) < MaxCalls
    /\ calls' = Append(calls,
         [fn |-> "compute_fingerprint",
          args |-> [module |-> module, data |-> data],
          ret |-> ComputeFingerprintOf(module, data)])
    /\ UNCHANGED <<pipeVars, vfsVars, boot>>

(***************************************************************************)
(* AsyncFS.write called as write_to_storage means to call it: the path of  *)
(* the deriver and the payload bytes, on an adapter of either compression. *)
(***************************************************************************)
\* class Compression
Compressions == {"none", "gzip"}

\* the name of an object that AsyncFS.write left as it was given
PlainPath(path) == <<path, "">>

\* AsyncFS.write(path, data, serializer): gzip.compress and path + ".gz" under
\* gzip, the bytes at the path itself otherwise
fs_write(store, compression, path, data) ==
    IF compression = "gzip" THEN Put(store, path, data)
    ELSE {o \in store : o.path # PlainPath(path)}
         \cup {[path |-> PlainPath(path), data |-> Uncompressed(data)]}

\* the storage path process_message / process_sftp_message derive for the
\* payload and put into the record
DerivedPath(c, data) ==
    IF c = "api"
    THEN build_path_by_fp(ApiEnvelope(1, data), compute_fingerprint(data))
    ELSE build_path_for_sftp_file("/uploads/alice/a.json", sftp_compute_fingerprint(data),
                                  "alice")

AsyncFSWrite(compression, c, data) ==
    /\ Len(calls) < MaxCalls
    /\ storage' = fs_write(storage, compression, DerivedPath(c, data), data)
    /\ calls' = Append(calls,
         [fn |-> "AsyncFS.write",
          args |-> [compression |-> compression, path |-> DerivedPath(c, data),
                    data |-> data],
          ret |-> NoValue])
    /\ UNCHANGED <<topic, uploads, pc, offset, committed, loc, raw_api_ingest,
                   raw_ingestion, ingestion_log, events>>
    /\ UNCHANGED <<vfsVars, boot>>

(***************************************************************************)
(* Uploads next to the file-drop consumer: a client writes files through   *)
(* the handles of server.py while storage/sftp/app.py works on the events  *)
(* of earlier uploads.  The producer is started and the loop of server.py  *)
(* is set; an event is published as soon as its handle is closed.          *)
(***************************************************************************)
\* handles one run opens
MaxUploads == 2

\* how often cleanup_uploaded_file has removed file_path: the files created
\* at that path since are different files
Removals(file_path) ==
    Cardinality({i \in 1..Len(events["sftp"]) :
                    /\ events["sftp"][i].e = "remove"
                    /\ topic["sftp"][events["sftp"][i].k].path = file_path})

\* the file the handle writes to is still the one at its path
Linked(handle) == handle.inode = Removals(handle.filename)

\* open(path, O_WRONLY | O_CREAT | O_TRUNC): os.open creates the file or cuts
\* it to nothing, under every handle that has it open; os.fdopen(fd, "wb")
UploadOpen(file_path) ==
    /\ Len(handles) < MaxUploads
    /\ uploads' = [uploads EXCEPT ![file_path] = ""]
    /\ handles' =
         Append([g \in DOMAIN handles |->
                    IF handles[g].filename = file_path /\ Linked(handles[g])
                    THEN [handles[g] EXCEPT !.data = ""] ELSE handles[g]],
                ProductionSFTPHandle({"O_WRONLY", "O_CREAT", "O_TRUNC"},
                                     Uploader(file_path), file_path)
                @@ [inode |-> Removals(file_path), data |-> "", content |-> NoValue])
    /\ UNCHANGED <<topic, pc, offset, committed, loc, raw_api_ingest, raw_ingestion,
                   ingestion_log, storage, events>>
    /\ UNCHANGED <<libVars, fsys, session, lastOp, notifier>>

\* ProductionSFTPHandle.write (server.py) of the whole payload at offset 0 of
\* a file that is still empty: seek, write, flush.  A file that cleanup has
\* removed is written all the same, without a name.
UploadWrite(h, data) ==
    /\ ~handles[h].closed
    /\ handles[h].writefile
    /\ handles[h].data = ""
    /\ handles' = [g \in DOMAIN handles |->
                      IF /\ handles[g].filename = handles[h].filename
                         /\ handles[g].inode = handles[h].inode
                      THEN [handles[g] EXCEPT !.data = data] ELSE handles[g]]
    /\ uploads' = IF Linked(handles[h])
                  THEN [uploads EXCEPT ![handles[h].filename] = data] ELSE uploads
    /\ UNCHANGED <<topic, pc, offset, committed, loc, raw_api_ingest, raw_ingestion,
                   ingestion_log, storage, events>>
    /\ UNCHANGED <<libVars, fsys, session, lastOp, notifier>>

\* ProductionSFTPHandle.close (server.py) and _publish_upload_event: the
\* event carries the path and os.path.getsize, 0 when nothing is at the path
UploadClose(h) ==
    /\ ~handles[h].closed
    /\ Len(topic["sftp"]) < MaxMsgs
    /\ handles' = [handles EXCEPT ![h].closed = TRUE, ![h].content = handles[h].data]
    /\ topic' = [topic EXCEPT !["sftp"] =
                    Append(@, SftpEvent(handles[h].filename,
                                        IF uploads[handles[h].filename] = Absent THEN 0
                                        ELSE Size(uploads[handles[h].filename])))]
    /\ UNCHANGED <<uploads, pc, offset, committed, loc, raw_api_ingest, raw_ingestion,
                   ingestion_log, storage, events>>
    /\ UNCHANGED <<libVars, fsys, session, lastOp, notifier>>

(***************************************************************************)
(* Start-up of the Kafka clients (common/kafka.py): init_async_consumer    *)
(* and init_async_producer run the same loop.                              *)
(***************************************************************************)
MaxRetries == 5

\* base_backoff values, in seconds
Backoffs == {0, 1, 2}

KafkaClients == {"consumer", "producer"}

\* the same wait before every retry
BackoffFixed(base_backoff, attempt) == base_backoff

\* backoff = base_backoff * attempt
Backoff(base_backoff, attempt) == base_backoff * attempt

\* the module globals of common/kafka.py: _async_consumers[group] is assigned
\* after consumer.start() returned, _async_producer when the producer is
\* constructed, before the loop
Constructed(client, clients) ==
    IF client = "producer" THEN [clients EXCEPT !.producer = "unstarted"] ELSE clients

\* get_async_consumer / get_async_producer: the client the module holds,
\* RuntimeError when it holds none
get_async_client(client, clients) ==
    IF clients[client] = "none" THEN "RuntimeError" ELSE clients[client]

\* the call of init_async_consumer / init_async_producer up to the loop: it
\* returns at once when the module holds the client already;
\* for attempt in range(1, max_retries + 1) has no first element when
\* max_retries is 0, and the function returns
InitAsyncClient(client, max_retries, base_backoff) ==
    /\ boot.state \in {"idle", "returned", "raised"}
    /\ boot' = IF boot.clients[client] # "none"
               THEN [NoBoot EXCEPT !.client = client, !.max_retries = max_retries,
                                   !.base_backoff = base_backoff,
                                   !.state = "returned", !.clients = boot.clients]
               ELSE [NoBoot EXCEPT !.client = client, !.max_retries = max_retries,
                                   !.base_backoff = base_backoff,
                                   !.attempt = IF max_retries >= 1 THEN 1 ELSE 0,
                                   !.state = IF max_retries >= 1 THEN "attempting"
                                             ELSE "returned",
                                   !.clients = Constructed(client, boot.clients)]
    /\ UNCHANGED <<pipeVars, vfsVars, calls>>

\* one pass of the loop body: await client.start(), return on success; on
\* KafkaConnectionError raise when attempt == max_retries, or else go to
\* sleep for the backoff
StartClient ==
    /\ boot.state = "attempting"
    /\ \E connected \in BOOLEAN :
         boot' = IF connected
                 THEN [boot EXCEPT !.outcomes = Append(@, "started"),
                                   !.state = "returned",
                                   !.clients[boot.client] = "started"]
                 ELSE IF boot.attempt = boot.max_retries
                 THEN [boot EXCEPT !.outcomes = Append(@, "KafkaConnectionError"),
                                   !.state = "raised"]
                 ELSE [boot EXCEPT !.outcomes = Append(@, "KafkaConnectionError"),
                                   !.sleeps = Append(@, Backoff(boot.base_backoff,
                                                                boot.attempt)),
                                   !.state = "sleeping"]
    /\ UNCHANGED <<pipeVars, vfsVars, calls>>

\* asyncio.sleep(backoff) is over: the next element of the range
NextAttempt ==
    /\ boot.state = "sleeping"
    /\ boot' = [boot EXCEPT !.attempt = @ + 1, !.state = "attempting"]
    /\ UNCHANGED <<pipeVars, vfsVars, calls>>

(***************************************************************************)
(* The credential directory (ingestion/sftp/user_manager.py,               *)
(* common/config.py) and authentication.                                   *)
(***************************************************************************)
\* values of SFTP_USERS
UsersEnvs ==
    {"alice:secret:read+write+delete|bob:pw",
     "alice:secret:admin",
     "alice:secret:",
     "alice:secret:read+ write",
     "alice",
     "alice:secret|alice/inbox:pw2|",
     "alice:secret|alice:other"}

\* str.split("|") of the modelled values
SplitPipe(users_env) ==
    CASE users_env = "alice:secret:read+write+delete|bob:pw" ->
           <<"alice:secret:read+write+delete", "bob:pw">>
      [] users_env = "alice:secret|alice/inbox:pw2|" ->
           <<"alice:secret", "alice/inbox:pw2", "">>
      [] users_env = "alice:secret|alice:other" -> <<"alice:secret", "alice:other">>
      [] OTHER -> <<users_env>>

\* str.split(":") of the modelled user specs
SplitColon(user_spec) ==
    CASE user_spec = "alice:secret:read+write+delete" ->
           <<"alice", "secret", "read+write+delete">>
      [] user_spec = "bob:pw" -> <<"bob", "pw">>
      [] user_spec = "alice:secret:admin" -> <<"alice", "secret", "admin">>
      [] user_spec = "alice:secret:" -> <<"alice", "secret", "">>
      [] user_spec = "alice:secret:read+ write" -> <<"alice", "secret", "read+ write">>
      [] user_spec = "alice:secret" -> <<"alice", "secret">>
      [] user_spec = "alice/inbox:pw2" -> <<"alice/inbox", "pw2">>
      [] user_spec = "alice:other" -> <<"alice", "other">>
      [] OTHER -> <<user_spec>>

\* str.split("+") of the modelled permission fields
SplitPlus(field) ==
    CASE field = "read+write+delete" -> <<"read", "write", "delete">>
      [] field = "read+ write" -> <<"read", " write">>
      [] OTHER -> <<field>>

\* str.strip() of the strings the model uses
Strip(s) == CASE s = " write" -> "write" [] s = " secret" -> "secret" [] OTHER -> s

Range(seq) == {seq[n] : n \in 1..Len(seq)}

\* the default of both loaders: {"read", "write"}
DefaultPermissions == {"read", "write"}

\* UserManager._load_users_from_env: the body of the loop over the user
\* specs, users being self.users so far
RECURSIVE LoadUserSpecs(_, _)
LoadUserSpecs(specs, users) ==
    IF specs = <<>> THEN users
    ELSE LET user_spec == Strip(Head(specs))
             parts == SplitColon(user_spec)
         IN  IF user_spec = "" THEN LoadUserSpecs(Tail(specs), users)
             ELSE IF Len(parts) >= 2
             THEN LoadUserSpecs(Tail(specs),
                     (Strip(parts[1]) :>
                        [password |-> Strip(parts[2]), keys |-> <<>>,
                         permissions |-> IF Len(parts) > 2 THEN Range(SplitPlus(parts[3]))
                                         ELSE DefaultPermissions])
                     @@ users)
             ELSE LoadUserSpecs(Tail(specs), users)

\* UserManager._load_users_from_env
load_users_from_env(users_env) ==
    [raised |-> NoValue, users |-> LoadUserSpecs(SplitPipe(users_env), <<>>)]

valid_permissions == {"read", "write", "delete"}

\* Settings.parse_sftp_users: the body of the loop over the user specs
RECURSIVE ParseUserSpecs(_, _)
ParseUserSpecs(specs, users) ==
    IF specs = <<>> THEN [raised |-> NoValue, users |-> users]
    ELSE LET user_spec == Strip(Head(specs))
             parts == SplitColon(user_spec)
             username == Strip(parts[1])
             password == Strip(parts[2])
             given == Len(parts) > 2 /\ Strip(parts[3]) # ""
             perm_list == SplitPlus(Strip(parts[3]))
             ValueError == [raised |-> "ValueError", users |-> <<>>]
         IN  IF user_spec = "" THEN ParseUserSpecs(Tail(specs), users)
             ELSE IF Len(parts) < 2 THEN ValueError
             ELSE IF username = "" \/ password = "" THEN ValueError
             ELSE IF given /\ \E perm \in Range(perm_list) :
                                 Strip(perm) \notin valid_permissions
             THEN ValueError
             ELSE IF username \in DOMAIN users THEN ValueError
             ELSE ParseUserSpecs(Tail(specs),
                     (username :>
                        [password |-> password,
                         permissions |-> IF given
                                         THEN {Strip(perm) : perm \in Range(perm_list)}
                                         ELSE DefaultPermissions])
                     @@ users)

\* Settings.parse_sftp_users
parse_sftp_users(users_str) == ParseUserSpecs(SplitPipe(users_str), <<>>)

Loaders == {"_load_users_from_env", "parse_sftp_users"}

\* the public keys presented and stored: type and key material
RsaA == [name |-> "ssh-rsa", bytes |-> "blobA"]
RsaB == [name |-> "ssh-rsa", bytes |-> "blobB"]
EdA == [name |-> "ssh-ed25519", bytes |-> "blobA"]

\* the keys _load_ssh_keys reads from <username>.pub in the keys directory
KeyFiles(username) == IF username = "alice" THEN <<RsaA>> ELSE <<>>

\* UserManager.__init__: _load_users_from_env, then _load_ssh_keys
UserManager(users_env) ==
    LET users == load_users_from_env(users_env).users
    IN  [username \in DOMAIN users |->
            [users[username] EXCEPT !.keys = KeyFiles(username)]]

\* the keys are compared by their type alone
SameKeyType(key, user_key) == key.name = user_key.name

\* key.get_name() == user_key.get_name() and key.asbytes() == user_key.asbytes()
SameKey(key, user_key) == key.name = user_key.name /\ key.bytes = user_key.bytes

\* UserManager.authenticate_password
authenticate_password(users, username, password) ==
    username \in DOMAIN users /\ users[username].password = password

\* UserManager.authenticate_key
authenticate_key(users, username, key) ==
    /\ username \in DOMAIN users
    /\ \E n \in 1..Len(users[username].keys) : SameKey(key, users[username].keys[n])

\* what clients present
AuthEnvs == {"alice:secret:read+write+delete|bob:pw", "alice:secret|alice:other"}
AuthUsernames == {"alice", "bob", "mallory"}
AuthPasswords == {"secret", "pw", " secret", "other"}
AuthKeys == {RsaA, RsaB, EdA}

LoadUsers(loader, users_env) ==
    /\ Len(calls) < MaxCalls
    /\ calls' = Append(calls,
         [fn |-> loader, args |-> [users_env |-> users_env],
          ret |-> IF loader = "parse_sftp_users" THEN parse_sftp_users(users_env)
                  ELSE load_users_from_env(users_env)])
    /\ UNCHANGED <<pipeVars, vfsVars, boot>>

AuthenticatePassword(users_env, username, password) ==
    /\ Len(calls) < MaxCalls
    /\ calls' = Append(calls,
         [fn |-> "authenticate_password",
          args |-> [users_env |-> users_env, username |-> username, password |-> password],
          ret |-> authenticate_password(UserManager(users_env), username, password)])
    /\ UNCHANGED <<pipeVars, vfsVars, boot>>

AuthenticateKey(users_env, username, key) ==
    /\ Len(calls) < MaxCalls
    /\ calls' = Append(calls,
         [fn |-> "authenticate_key",
          args |-> [users_env |-> users_env, username |-> username, key |-> key],
          ret |-> authenticate_key(UserManager(users_env), username, key)])
    /\ UNCHANGED <<pipeVars, vfsVars, boot>>

\* ProductionSFTPServer.__init__ of a connection whose user authenticated
\* with the password of the directory
NewSession(users_env, username) ==
    /\ Len(calls) < MaxCalls
    /\ username \in DOMAIN UserManager(users_env)
    /\ authenticate_password(UserManager(users_env), username,
                             UserManager(users_env)[username].password)
    /\ calls' = Append(calls,
         [fn |-> "ProductionSFTPServer",
          args |-> [users_env |-> users_env, authenticated_user |-> username],
          ret |-> [current_user |-> username, user_root |-> UserRoot(username)]])
    /\ UNCHANGED <<pipeVars, vfsVars, boot>>

(***************************************************************************)
(* Writes through a handle, followed by the size of its file.  server.py   *)
(* and handle.py each define a ProductionSFTPHandle; open() of server.py   *)
(* makes handles of the class of server.py.                                *)
(***************************************************************************)
\* writes one handle receives
MaxWrites == 2

\* settings.sftp_max_file_size, in bytes (scaled down)
sftp_max_file_size == 4

HandleClasses == {"server.ProductionSFTPHandle", "handle.ProductionSFTPHandle"}

\* the modes open() passes to os.fdopen for O_WRONLY and O_RDWR, without
\* and with O_APPEND
WriteModes == {"wb", "ab", "r+b", "a+b"}

Appends(mode) == mode \in {"ab", "a+b"}

\* sizes of the file when it is opened, offsets and lengths of the writes
FileSizes == {0, 3}
WriteOffsets == {0, 2, 4}
WriteLengths == {1, 3}

Larger(a, b) == IF a >= b THEN a ELSE b

\* the file after seek(offset), write(data), flush(): a descriptor opened
\* with O_APPEND writes at the end of the file wherever it was sought to
SizeAfterWrite(mode, size, at, length) ==
    IF Appends(mode) THEN size + length ELSE Larger(size, at + length)

\* handle.py: projected_size = max(self.writefile.tell(), offset + len(data)),
\* refused when it is over settings.sftp_max_file_size; the write of
\* server.py has no such check
ExceedsLimit(class, tell, at, length) ==
    /\ class = "handle.ProductionSFTPHandle"
    /\ Larger(tell, at + length) > sftp_max_file_size

\* ProductionSFTPServer.open with O_WRONLY or O_RDWR on a file of the given
\* size: "wb" cuts the file, the append modes start at its end
OpenForWrite(class, mode, size) ==
    /\ handles = <<>>
    /\ handles' = <<[class |-> class, mode |-> mode,
                     size |-> IF mode = "wb" THEN 0 ELSE size,
                     opened_at |-> IF mode = "wb" THEN 0 ELSE size,
                     tell |-> IF Appends(mode) THEN size ELSE 0,
                     bytes_written |-> 0, writes |-> <<>>]>>
    /\ UNCHANGED <<pipeVars, libVars, fsys, session, lastOp, notifier>>

\* ProductionSFTPHandle.write(offset, data)
HandleWrite(h, at, length) ==
    /\ Len(handles[h].writes) < MaxWrites
    /\ LET handle == handles[h]
           refused == ExceedsLimit(handle.class, handle.tell, at, length)
           size == SizeAfterWrite(handle.mode, handle.size, at, length)
           result == [offset |-> at, length |-> length,
                      size_before |-> handle.size,
                      bytes_written_before |-> handle.bytes_written,
                      ret |-> IF refused THEN "SFTP_FAILURE" ELSE "SFTP_OK"]
       IN  handles' = [handles EXCEPT ![h] =
              IF refused
              THEN [handle EXCEPT !.writes = Append(@, result)]
              ELSE [handle EXCEPT
                      !.size = size,
                      !.tell = IF Appends(handle.mode) THEN size ELSE at + length,
                      !.bytes_written =
                          IF handle.class = "handle.ProductionSFTPHandle"
                          THEN Larger(@, at + length) ELSE @,
                      !.writes = Append(@, result)]]
    /\ UNCHANGED <<pipeVars, libVars, fsys, session, lastOp, notifier>>

(***************************************************************************)
(* One connection (ingestion/sftp/server.py): a ProductionServer whose     *)
(* check_auth_* methods the SSH library calls for every attempt, in any    *)
(* order, and the ProductionSFTPServer made once an attempt has succeeded. *)
(***************************************************************************)
\* calls followed on one connection
MaxAuthCalls == 3

\* SFTP_USERS of the server the connection is made to
ConnectionEnv == "alice:secret:read+write+delete|bob:pw"

AuthChecks ==
    {i \in 1..Len(calls) : calls[i].fn \in {"check_auth_password", "check_auth_publickey"}}

\* self.authenticated_user after the first n calls; None after __init__
AuthenticatedUserAfter(n) ==
    LET before == {i \in AuthChecks : i <= n}
    IN  IF before = {} THEN NoUser
        ELSE calls[CHOOSE i \in before : \A j \in before : j <= i].ret.authenticated_user

\* the user is recorded before the credential is looked at
SetsUserBeforeChecking(accepted, username, authenticated_user) == username

\* if authenticate_*(username, ...): self.authenticated_user = username
SetAuthenticatedUser(accepted, username, authenticated_user) ==
    IF accepted THEN username ELSE authenticated_user

AuthResult(accepted) == IF accepted THEN "AUTH_SUCCESSFUL" ELSE "AUTH_FAILED"

\* ProductionServer.check_auth_password
CheckAuthPassword(username, password) ==
    /\ Len(calls) < MaxAuthCalls
    /\ LET accepted == authenticate_password(UserManager(ConnectionEnv), username, password)
       IN  calls' = Append(calls,
             [fn |-> "check_auth_password",
              args |-> [username |-> username, password |-> password],
              ret |-> [result |-> AuthResult(accepted),
                       authenticated_user |->
                          SetAuthenticatedUser(accepted, username,
                                               AuthenticatedUserAfter(Len(calls)))]])
    /\ UNCHANGED <<pipeVars, vfsVars, boot>>

\* ProductionServer.check_auth_publickey
CheckAuthPublickey(username, key) ==
    /\ Len(calls) < MaxAuthCalls
    /\ LET accepted == authenticate_key(UserManager(ConnectionEnv), username, key)
       IN  calls' = Append(calls,
             [fn |-> "check_auth_publickey",
              args |-> [username |-> username, key |-> key],
              ret |-> [result |-> AuthResult(accepted),
                       authenticated_user |->
                          SetAuthenticatedUser(accepted, username,
                                               AuthenticatedUserAfter(Len(calls)))]])
    /\ UNCHANGED <<pipeVars, vfsVars, boot>>

\* ProductionSFTPServer.__init__(server): the SFTP subsystem is started on a
\* channel, and channels are opened only on an authenticated transport
OpenSftp ==
    /\ Len(calls) < MaxAuthCalls
    /\ \E i \in AuthChecks : calls[i].ret.result = "AUTH_SUCCESSFUL"
    /\ LET current_user == AuthenticatedUserAfter(Len(calls))
       IN  calls' = Append(calls,
             [fn |-> "ProductionSFTPServer",
              args |-> [users_env |-> ConnectionEnv, authenticated_user |-> current_user],
              ret |-> [current_user |-> current_user, user_root |-> UserRoot(current_user)]])
    /\ UNCHANGED <<pipeVars, vfsVars, boot>>

(***************************************************************************)
(* Specifications.                                                        *)
(***************************************************************************)
NextPipe ==
    \/ \E c \in Variants : Fetch(c)
    \/ ApiStart
    \/ ApiInsert
    \/ ApiLogStatus
    \/ ApiWrite
    \/ ApiCommit
    \/ SftpStart
    \/ SftpInsert
    \/ SftpLogStatus
    \/ SftpWrite
    \/ SftpCleanup
    \/ SftpCommit
    \/ SftpCommitAfterError

\* no connection to the SFTP server
VfsIdle ==
    /\ fsys = {Dir(upload_root)}
    /\ session = NoSession
    /\ lastOp = NoOp
    /\ handles = <<>>
    /\ notifier = NoNotifier("server.main")

\* one consumer process at a time: the topic of the other one is empty
Init ==
    /\ InitPipe(MaxMsgs)
    /\ topic.api = <<>> \/ topic.sftp = <<>>
    /\ VfsIdle

Next == NextPipe

Spec == Init /\ [][Next]_vars

\* both consumer processes side by side, sharing the database and the store
InitBoth == InitPipe(MaxBothMsgs) /\ VfsIdle

SpecBoth == InitBoth /\ [][Next]_vars

\* the SFTP server alone: one connection after the other, no message on the
\* topics of the consumers
InitSftpServer ==
    /\ InitPipe(0)
    /\ uploads = [f \in UploadFiles |-> Absent]
    /\ InitVfs

NextVfs ==
    \/ \E user \in SessionUsers : StartSession(user)
    \/ \E path \in ClientPaths : list_folder(path)
    \/ \E path \in ClientPaths : stat(path)
    \/ \E path \in ClientPaths : lstat(path)
    \/ \E path \in ClientPaths, flags \in OpenFlags : open(path, flags)
    \/ \E path \in ClientPaths : remove(path)
    \/ \E oldpath \in ClientPaths, newpath \in ClientPaths : rename(oldpath, newpath)
    \/ \E path \in ClientPaths : mkdir(path)
    \/ \E path \in ClientPaths : rmdir(path)

SpecVfs == InitSftpServer /\ [][NextVfs]_vars

\* the SFTP server with its event-loop thread: the server started by either
\* entry point, one connection that opens and closes files
InitNotify ==
    /\ InitPipe(0)
    /\ uploads = [f \in UploadFiles |-> Absent]
    /\ fsys \in InitialFilesystems
    /\ session = NoSession
    /\ lastOp = NoOp
    /\ handles = <<>>
    /\ notifier \in {NoNotifier(entry) : entry \in EntryPoints}

NextNotify ==
    \/ StartAsyncComponents
    \/ \E user \in SessionUsers : StartSession(user)
    \/ \E path \in ClientPaths, flags \in OpenFlags : open(path, flags)
    \/ \E h \in 1..Len(handles) : close(h)
    \/ \E n \in 1..Len(notifier.tasks) : PublishUploadEvent(n)

SpecNotify == InitNotify /\ [][NextNotify]_vars

\* the path builders called with every combination of the modelled inputs
InitPaths == InitPipe(0) /\ uploads = [f \in UploadFiles |-> Absent] /\ VfsIdle

NextPaths ==
    \/ \E event \in PathEvents, fingerprint \in PathFingerprints,
          base_prefix \in BasePrefixes :
          BuildPathByFp(event, fingerprint, base_prefix)
    \/ \E original_path \in OriginalPaths, fingerprint \in PathFingerprints,
          username \in PathUsers :
          BuildPathForSftpFile(original_path, fingerprint, username)
    \/ \E module \in FingerprintModules, data \in Payloads :
          ComputeFingerprint(module, data)

SpecPaths == InitPaths /\ [][NextPaths]_vars

\* the credential directory loaded from SFTP_USERS by either loader, clients
\* authenticating against it, and the sessions of those that did
InitUsers == InitPipe(0) /\ uploads = [f \in UploadFiles |-> Absent] /\ VfsIdle

NextUsers ==
    \/ \E loader \in Loaders, users_env \in UsersEnvs : LoadUsers(loader, users_env)
    \/ \E users_env \in AuthEnvs, username \in AuthUsernames, password \in AuthPasswords :
          AuthenticatePassword(users_env, username, password)
    \/ \E users_env \in AuthEnvs, username \in AuthUsernames, key \in AuthKeys :
          AuthenticateKey(users_env, username, key)
    \/ \E users_env \in UsersEnvs, username \in {"alice", "bob", "alice/inbox"} :
          NewSession(users_env, username)

SpecUsers == InitUsers /\ [][NextUsers]_vars

\* one handle open for writing and the writes it receives
InitHandle == InitPipe(0) /\ uploads = [f \in UploadFiles |-> Absent] /\ VfsIdle

NextHandle ==
    \/ \E class \in HandleClasses, mode \in WriteModes, size \in FileSizes :
          OpenForWrite(class, mode, size)
    \/ \E h \in 1..Len(handles), at \in WriteOffsets, length \in WriteLengths :
          HandleWrite(h, at, length)

SpecHandle == InitHandle /\ [][NextHandle]_vars

\* the authentication attempts of one connection and its SFTP sessions
InitAuth == InitPipe(0) /\ uploads = [f \in UploadFiles |-> Absent] /\ VfsIdle

NextAuth ==
    \/ \E username \in AuthUsernames, password \in AuthPasswords :
          CheckAuthPassword(username, password)
    \/ \E username \in AuthUsernames, key \in AuthKeys :
          CheckAuthPublickey(username, key)
    \/ OpenSftp

SpecAuth == InitAuth /\ [][NextAuth]_vars

\* writes to the object store through AsyncFS.write
InitStore == InitPipe(0) /\ uploads = [f \in UploadFiles |-> Absent] /\ VfsIdle

NextStore ==
    \E compression \in Compressions, c \in Variants, data \in Payloads :
       AsyncFSWrite(compression, c, data)

SpecStore == InitStore /\ [][NextStore]_vars

\* uploads through the SFTP server while the file-drop consumer runs
InitUpload == InitPipe(0) /\ uploads = [f \in UploadFiles |-> Absent] /\ VfsIdle

NextUpload ==
    \/ \E file_path \in UploadFiles : UploadOpen(file_path)
    \/ \E h \in 1..Len(handles), data \in Payloads \ {""} : UploadWrite(h, data)
    \/ \E h \in 1..Len(handles) : UploadClose(h)
    \/ Fetch("sftp")
    \/ SftpStart
    \/ SftpInsert
    \/ SftpLogStatus
    \/ SftpWrite
    \/ SftpCleanup
    \/ SftpCommit
    \/ SftpCommitAfterError

SpecUpload == InitUpload /\ [][NextUpload]_vars

\* one call of init_async_consumer or init_async_producer, the broker
\* answering or not at every attempt
InitBoot == InitPipe(0) /\ uploads = [f \in UploadFiles |-> Absent] /\ VfsIdle

NextBoot ==
    \/ \E client \in KafkaClients, max_retries \in 0..MaxRetries,
          base_backoff \in Backoffs :
          InitAsyncClient(client, max_retries, base_backoff)
    \/ StartClient
    \/ NextAttempt

SpecBoot == InitBoot /\ [][NextBoot]_vars

(***************************************************************************)
(* Claims about the pipeline.                                              *)
(***************************************************************************)
\* identifier of the k-th message of variant c
UidOf(c, k) == IF c = "api" THEN <<"api", k>> ELSE SftpUid(k)

\* the history of c holds effect e of its k-th message
Did(c, k, e) == \E i \in 1..Len(events[c]) : events[c][i] = [k |-> k, e |-> e]

\* main is through with the k-th message of c: it committed it, or the
\* process stopped on it
Ended(c, k) == Did(c, k, "commit") \/ (offset[c] = k /\ pc[c] = "crashed")

Statuses(uid) == {ingestion_log[uid][n].status : n \in 1..Len(ingestion_log[uid])}

\* C1: the landed file is removed only after the storage write of the same
\* message succeeded, and after a failed storage write the file is still at
\* its original path when process_sftp_message ends.
C1_DeleteOnlyAfterStored ==
    /\ \A i \in 1..Len(events["sftp"]) :
         events["sftp"][i].e = "remove" =>
            \E j \in 1..(i - 1) :
               events["sftp"][j] = [k |-> events["sftp"][i].k, e |-> "write_ok"]
    /\ (pc["sftp"] = "processed" /\ Did("sftp", offset["sftp"], "write_raise"))
          => uploads[loc["sftp"].file_path] # Absent

\* C2: after a failed storage write of a file-drop message the log of its
\* identifier has a storage_failed entry once the message is processed, and
\* it never has a cleaned_up entry.
C2_StorageFailedLogged ==
    \A k \in 1..offset["sftp"] :
       Did("sftp", k, "write_raise") =>
          /\ "cleaned_up" \notin Statuses(SftpUid(k))
          /\ Did("sftp", k, "commit") => "storage_failed" \in Statuses(SftpUid(k))

\* C3: there is at most one ingestion record per fingerprint, whichever front
\* door the bytes came through, and no recorded row is ever dropped or changed.
C3_OneRecordPerFingerprint ==
    \A data \in Payloads :
       Cardinality({r \in raw_api_ingest : r.fingerprint = compute_fingerprint(data)})
       + Cardinality({r \in raw_ingestion : r.fingerprint = compute_fingerprint(data)}) <= 1

\* C4: an insert rejected by the uniqueness constraint raises nothing to the
\* orchestrator, which goes on to the storage write of that message.
C4_DuplicateProceedsToStore ==
    \A c \in Variants : \A k \in 1..offset[c] :
       Did(c, k, "unique_violation") =>
          /\ ~Did(c, k, "raise")
          /\ Ended(c, k) => (Did(c, k, "write_ok") \/ Did(c, k, "write_raise"))

\* C5: a call of store_metadata / store_sftp_metadata that has ended left
\* exactly one ingested or duplicate entry in the log of its identifier, and
\* after a uniqueness violation that entry is duplicate.
C5_RecordLogsOnce ==
    \A c \in Variants : \A k \in 1..offset[c] :
       (Did(c, k, "record_return") \/ Did(c, k, "record_raise")) =>
          /\ Cardinality({n \in 1..Len(ingestion_log[UidOf(c, k)]) :
                ingestion_log[UidOf(c, k)][n].status \in {"ingested", "duplicate"}}) = 1
          /\ Did(c, k, "unique_violation") => "duplicate" \in Statuses(UidOf(c, k))

\* the last request went past both gates to its filesystem calls
Executed == lastOp.result \notin {"none", "denied", "rejected"}

\* C6: an operation that is not rejected acts only on the session root or on
\* paths below it, whatever "..", links or leading slashes the client path has.
C6_ActsInsideRoot ==
    Executed => \A node \in lastOp.acted : IsPrefix(session.user_root, node)

\* the permission the operation op needs
Required(op) ==
    CASE op \in {"list_folder", "stat", "lstat"} -> "read"
      [] op \in {"mkdir", "rename"} -> "write"
      [] op \in {"remove", "rmdir"} -> "delete"

\* C7: an operation is executed only if the permissions of the session hold the
\* permission it requires (a handle open for reading requires read, a handle
\* open for writing requires write), and a session without a user, or of a
\* user the directory does not know, executes nothing.
C7_PermissionGatesEveryOperation ==
    Executed =>
       /\ session.current_user \in DOMAIN LoadedUsers
       /\ lastOp.op # "open" =>
             Required(lastOp.op) \in LoadedUsers[session.current_user]
       /\ lastOp.op = "open" =>
             /\ lastOp.readable => "read" \in LoadedUsers[session.current_user]
             /\ lastOp.writable => "write" \in LoadedUsers[session.current_user]
             /\ "read" \in LoadedUsers[session.current_user]
                \/ "write" \in LoadedUsers[session.current_user]

\* C8: when processing a message raised, a failed entry was logged for it
\* before, and main then commits the offset of the message.
C8_FailureLoggedThenCommitted ==
    \A c \in Variants : \A i \in 1..Len(events[c]) :
       events[c][i].e = "raise" =>
          /\ \E j \in 1..(i - 1) :
                events[c][j] = [k |-> events[c][i].k, e |-> "log_failed"]
          /\ (pc[c] \in {"idle", "crashed"} \/ offset[c] > events[c][i].k) =>
                \E j \in (i + 1)..Len(events[c]) :
                   events[c][j] = [k |-> events[c][i].k, e |-> "commit"]

\* C9: no message stops a consumer: its main loop is never left.
C9_ConsumerNeverStops == \A c \in Variants : pc[c] # "crashed"

\* C10: a consumer handles its messages one at a time and in order: its effects
\* never go back to an earlier message, and the fetch of a message comes right
\* after the commit of the message before it.
C10_OneAtATime ==
    \A c \in Variants : \A j \in 1..Len(events[c]) :
       /\ \A i \in 1..j : events[c][i].k <= events[c][j].k
       /\ events[c][j].e = "fetch" =>
             IF j = 1 THEN events[c][j].k = 1
             ELSE events[c][j - 1] = [k |-> events[c][j].k - 1, e |-> "commit"]

\* a consumer that has committed its first message after insert, log and
\* storage write, and is through the insert of its second one
C10_Witness ==
    \E c \in Variants :
       /\ Did(c, 1, "insert") /\ Did(c, 1, "log_failed") /\ Did(c, 1, "commit")
       /\ Did(c, 2, "fetch") /\ (Did(c, 2, "insert") \/ Did(c, 2, "unique_violation"))

\* the statuses logged for an identifier, in order
StatusSeq(uid) == [n \in 1..Len(ingestion_log[uid]) |-> ingestion_log[uid][n].status]

\* the number of entries of an identifier with a status of S
Count(uid, S) ==
    Cardinality({n \in 1..Len(ingestion_log[uid]) : ingestion_log[uid][n].status \in S})

C12_OneEntryPerStage ==
    \A c \in Variants :
       LET k == offset[c]
           uid == loc[c].uid
       IN  (k > 0 /\ uid # <<>>) =>
              /\ Did(c, k, "log_started") => Count(uid, {"started"}) = 1
              /\ Did(c, k, "record_return") =>
                    Count(uid, {"ingested", "duplicate"}) = 1
              /\ Did(c, k, "record_raise") =>
                    Count(uid, {"ingested", "duplicate", "failed"}) = 1
              /\ Did(c, k, "write_ok") => Count(uid, {"complete", "failed"}) = 1
              /\ Did(c, k, "write_raise") => Count(uid, {"complete", "failed"}) = 1
              /\ (Did(c, k, "remove") \/ Did(c, k, "remove_raise")) =>
                    Count(uid, {"cleaned_up", "cleanup_failed"}) = 1

\* C13: write_to_storage has ended without raising; on a working backend the
\* bytes are written, complete is logged and success is returned; when the
\* adapter raised, failed is logged and failure is returned; and complete is
\* logged only with the object in storage.
C13_StoreReportsOutcome ==
    \A c \in Variants :
       pc[c] = "stored" =>
          /\ loc[c].adapter = "up" =>
                /\ Did(c, offset[c], "write_ok")
                /\ Count(loc[c].uid, {"complete"}) = 1
                /\ loc[c].ret = "True"
          /\ Did(c, offset[c], "write_raise") =>
                /\ Count(loc[c].uid, {"failed"}) = 1
                /\ loc[c].ret = "False"
          /\ Count(loc[c].uid, {"complete"}) > 0 =>
                read_bytes(storage, GzPath(loc[c].path)) = loc[c].payload_bytes

\* the publishes handed to the event loop for handle h
TasksOf(h) == {n \in 1..Len(notifier.tasks) : notifier.tasks[n].h = h}

\* C14: every close of a handle that was open for writing hands exactly one
\* file-landed event to the upload completion notifier, whenever the handle
\* is closed while the server accepts connections, and closing it again
\* hands none
C14_OneEventPerWriteClose ==
    \A h \in 1..Len(handles) :
        handles[h].writefile /\ handles[h].closed => Cardinality(TasksOf(h)) = 1

\* C15: close hands the publish over and answers SFTP_OK without waiting for
\* it: the connection thread is never held by a publish, and a close answers
\* ok whether the publish is still pending, went through or failed
C15_CloseDoesNotWait ==
    /\ session.thread = "ready"
    /\ lastOp.op = "close" => lastOp.result = "ok"

\* a publish failed, another is still pending, and the connection went on to
\* close a handle after the failure
C15_Witness ==
    /\ lastOp.op = "close" /\ lastOp.result = "ok"
    /\ \E n, m \in 1..Len(notifier.tasks) :
         /\ n < m
         /\ notifier.tasks[n].state = "failed"
         /\ notifier.tasks[m].state = "pending"

\* the record call of c for its current message has ended
RecordEnded(c) ==
    Did(c, offset[c], "record_return") \/ Did(c, offset[c], "record_raise")

\* C16: when two orchestrator instances have recorded the same fingerprint,
\* in whatever order their steps were taken, neither call raised, one ended
\* with ingested and the other with duplicate, and there is exactly one
\* ingestion record of that fingerprint
C16_ConcurrentRecordsRace ==
    (/\ RecordEnded("api") /\ RecordEnded("sftp")
     /\ loc["api"].fingerprint = loc["sftp"].fingerprint)
    => /\ \A c \in Variants : ~Did(c, offset[c], "record_raise")
       /\ {loc["api"].status, loc["sftp"].status} = {"ingested", "duplicate"}
       /\ Cardinality({r \in raw_api_ingest : r.fingerprint = loc["api"].fingerprint})
          + Cardinality({r \in raw_ingestion : r.fingerprint = loc["api"].fingerprint}) = 1

\* process_sftp_message tried to read the landed file of its k-th message
ReadTried(k) ==
    Did("sftp", k, "read_raise") \/ Did("sftp", k, "insert")
       \/ Did("sftp", k, "unique_violation")

\* the landed file named by the k-th file-drop message is gone, and it is
\* not the processing of that message that removed it
Vanished(k) ==
    /\ JsonLoadable(topic["sftp"][k])
    /\ "path" \in DOMAIN topic["sftp"][k]
    /\ uploads[topic["sftp"][k].path] = Absent
    /\ ~Did("sftp", k, "remove")

\* C17: when the landed file is gone by the time its file-drop message is
\* processed, processing fails: the log of the identifier is started then
\* failed, with no ingestion record, no storage write and no cleaned_up entry
C17_VanishedFileFails ==
    \A k \in 1..offset["sftp"] :
       (Vanished(k) /\ ReadTried(k)) =>
          /\ Did("sftp", k, "read_raise")
          /\ Did("sftp", k, "raise")
          /\ StatusSeq(SftpUid(k)) = <<"started", "failed">>
          /\ \A r \in raw_ingestion : r.object_id # SftpUid(k)
          /\ ~Did("sftp", k, "write_ok") /\ ~Did("sftp", k, "write_raise")
          /\ "cleaned_up" \notin Statuses(SftpUid(k))

\* a message whose file is gone was processed and committed, after an
\* earlier message of the same consumer
C17_Witness ==
    /\ offset["sftp"] = 2
    /\ Vanished(2) /\ ReadTried(2)
    /\ Did("sftp", 2, "commit")

\* C18: the ingestion log is append-only: every step leaves the entries an
\* identifier had as a prefix of the entries it has afterwards
C18_LogAppendOnly ==
    [][\A uid \in Uids : IsPrefix(ingestion_log[uid], ingestion_log'[uid])]_vars

\* an identifier has three entries: two were appended to a log that was not
\* empty
C18_Witness ==
    \E uid \in Uids : Len(ingestion_log[uid]) >= 3

\* C19: write_bytes(p, b) on a working storage completes without error, and
\* read_bytes of the object it wrote, p + '.gz' under gzip, returns b
C19_WriteBytesRoundTrip ==
    \A c \in Variants :
       (pc[c] = "stored" /\ loc[c].adapter = "up") =>
          /\ Did(c, offset[c], "write_ok")
          /\ read_bytes(storage, GzPath(loc[c].path)) = loc[c].payload_bytes

\* C20: for a request body the API front door accepted, the bytes the storage
\* orchestrator fingerprints and hands to the storage write are the request
\* body: decoding the envelope's base64 body gives back what was encoded
C20_Base64RoundTrip ==
    (pc["api"] \in {"inserted", "recorded", "stored"}) =>
       \A data \in Payloads :
          Msg("api").body = B64Encode(data) =>
             /\ loc["api"].payload_bytes = data
             /\ loc["api"].fingerprint = compute_fingerprint(data)

\* a body with a byte outside ASCII went through the decode and reached the
\* storage write
C20_Witness ==
    /\ pc["api"] = "stored"
    /\ loc["api"].payload_bytes = "c3a9"
    /\ Msg("api").body = B64Encode("c3a9")

(***************************************************************************)
(* Claims about the storage path.                                          *)
(***************************************************************************)
CallsOf(fn) == {i \in 1..Len(calls) : calls[i].fn = fn}

\* the prefix a call of build_path_by_fp asked for
PrefixOf(args) == IF args.base_prefix = NoValue THEN "bronze" ELSE args.base_prefix

\* the modelled formats and extensions written in lowercase
InLowerCase(s) == CASE s \in {"json", "JSON"} -> "json" [] s \in {"pdf", "PDF"} -> "pdf"
                    [] OTHER -> s

\* the extension of the modelled original file names, "" when there is none
ExtensionOf(original_path) ==
    CASE original_path = "/uploads/alice/a.json" -> "json"
      [] original_path = "/uploads/alice/SCAN.PDF" -> "PDF"
      [] original_path = "/uploads/bob/archive.tar.gz" -> "gz"
      [] original_path = "/uploads/bob/b" -> ""

\* C21: two ingestions with the same origin category (content type, format
\* and subtype of a request; uploader of a file drop) and the same first 16
\* characters of the fingerprint get the same storage path
C21_SameCategorySamePath ==
    /\ \A i, j \in CallsOf("build_path_by_fp") :
         (/\ calls[i].args.event = calls[j].args.event
          /\ calls[i].args.base_prefix = calls[j].args.base_prefix
          /\ calls[i].args.fingerprint.hex16 = calls[j].args.fingerprint.hex16)
         => PathString(calls[i].ret) = PathString(calls[j].ret)
    /\ \A i, j \in CallsOf("build_path_for_sftp_file") :
         (/\ calls[i].args.username = calls[j].args.username
          /\ calls[i].args.fingerprint.hex16 = calls[j].args.fingerprint.hex16)
         => PathString(calls[i].ret) = PathString(calls[j].ret)

\* C22: build_path_by_fp returns prefix/content_type/format/subtype/ followed
\* by the first 16 hex characters of the fingerprint, a dot and the format as
\* the envelope declares it, with prefix bronze unless another is given
C22_ApiPathAsDeclared ==
    \A i \in CallsOf("build_path_by_fp") :
       LET a == calls[i].args
       IN  PathString(calls[i].ret) =
              Join(<<PrefixOf(a), a.event.content_type, a.event.format, a.event.subtype,
                     a.fingerprint.hex16 \o "." \o a.event.format>>)

\* C22: build_path_by_fp returns prefix/content_type/format/subtype/ followed
\* by the first 16 hex characters of the fingerprint, a dot and the declared
\* format in lowercase; the format segment keeps the declared case, the
\* prefix is bronze unless another is given, and nothing of the fingerprint
\* beyond its first 16 characters is used
C22_ApiPathFormat ==
    \A i \in CallsOf("build_path_by_fp") :
       LET a == calls[i].args
       IN  PathString(calls[i].ret) =
              Join(<<PrefixOf(a), a.event.content_type, a.event.format, a.event.subtype,
                     a.fingerprint.hex16 \o "." \o InLowerCase(a.event.format)>>)

\* two fingerprints that differ after their 16th character, an upper-case
\* format and a prefix of the caller's give the same path twice
C22_Witness ==
    /\ Len(calls) = 2
    /\ \A i \in 1..2 :
         /\ calls[i].fn = "build_path_by_fp"
         /\ PathString(calls[i].ret) = "custom/fhir/JSON/patient/2cf24dba5fb0a30e.json"
    /\ calls[1].args.fingerprint # calls[2].args.fingerprint

\* C23: build_path_for_sftp_file returns bronze/sftp/username/ followed by
\* the first 16 hex characters of the fingerprint, a dot and the extension of
\* the original file name, or bin when the name has no extension
C23_SftpPathFormat ==
    \A i \in CallsOf("build_path_for_sftp_file") :
       LET a == calls[i].args
       IN  PathString(calls[i].ret) =
              Join(<<"bronze", "sftp", a.username,
                     a.fingerprint.hex16 \o "." \o
                        (IF ExtensionOf(a.original_path) = "" THEN "bin"
                         ELSE ExtensionOf(a.original_path))>>)

\* the empty file bob uploaded under a name without extension, and a file
\* with two suffixes
C23_Witness ==
    /\ \E i \in 1..Len(calls) :
         /\ calls[i].fn = "build_path_for_sftp_file"
         /\ PathString(calls[i].ret) = "bronze/sftp/bob/e3b0c44298fc1c14.bin"
    /\ \E i \in 1..Len(calls) :
         /\ calls[i].fn = "build_path_for_sftp_file"
         /\ PathString(calls[i].ret) = "bronze/sftp/bob/2cf24dba5fb0a30e.gz"

\* C24: the extension of every derived storage path is in lowercase, in both
\* variants, whatever the case of the declared format or of the extension of
\* the original file name
C24_ExtensionLowercase ==
    \A i \in 1..Len(calls) : calls[i].ret.file_ext = InLowerCase(calls[i].ret.file_ext)

(***************************************************************************)
(* Claims about the start-up of the Kafka clients.                         *)
(***************************************************************************)
\* the attempts that ended with a connection error
Failures == {i \in 1..Len(boot.outcomes) : boot.outcomes[i] = "KafkaConnectionError"}

\* C25: init_async_consumer and init_async_producer start the client at
\* most max_retries times, wait base_backoff times the attempt number
\* between consecutive attempts, make no attempt after the first success, and
\* raise the connection error after the last failed attempt
C25_BoundedRetryLinearBackoff ==
    /\ Len(boot.outcomes) <= boot.max_retries
    /\ \A i \in 1..Len(boot.outcomes) :
          boot.outcomes[i] = "started" => (i = Len(boot.outcomes) /\ boot.state = "returned")
    /\ boot.sleeps = [i \in 1..Len(boot.sleeps) |-> boot.base_backoff * i]
    /\ boot.state = "attempting" => Len(boot.sleeps) = Len(boot.outcomes)
    /\ boot.state \in {"sleeping", "returned", "raised"}
          => Len(boot.sleeps) = Cardinality(Failures \ {boot.max_retries})
    /\ boot.state = "raised"
          <=> (boot.max_retries >= 1 /\ Cardinality(Failures) = boot.max_retries)

\* three attempts failed, with waits of 2 and 4 seconds between them, and the
\* error was raised
C25_Witness ==
    /\ boot.state = "raised"
    /\ boot.max_retries = 3
    /\ boot.sleeps = <<2, 4>>

\* C37: after init_async_consumer or init_async_producer gave up and raised,
\* the matching get_* call raises RuntimeError, and the next init call for
\* that client starts the client anew instead of returning at once.
C37_InitializedOnlyAfterStart ==
    /\ [](boot.state = "raised" => get_async_client(boot.client, boot.clients) = "RuntimeError")
    /\ [][(/\ boot.state = "raised"
           /\ boot'.state # "raised"
           /\ boot'.client = boot.client
           /\ boot'.max_retries >= 1) => boot'.state = "attempting"]_vars

\* C26: a process whose producer or consumer could not be started within
\* the retry bound terminates: once start-up has failed, the SFTP server takes
\* no further step for a client (no connection accepted, no request served,
\* no handle opened or closed)
C26_NoServingAfterFailedStartup ==
    [][notifier.producer = "failed"
          => (session' = session /\ handles' = handles /\ fsys' = fsys)]_vars

(***************************************************************************)
(* Claims about the credential directory, authentication and the roots of  *)
(* the sessions.                                                           *)
(***************************************************************************)
\* the loads that returned a directory
Loaded == {i \in 1..Len(calls) : calls[i].fn \in Loaders /\ calls[i].ret.raised = NoValue}

\* C27: the roots of two sessions authenticated as different users of one
\* directory are never shared: neither equals or contains the other, and the
\* root of a session is upload_root/username
C27_RootsNeverShared ==
    \A i, j \in CallsOf("ProductionSFTPServer") :
       LET a == calls[i]
           b == calls[j]
           SameDirectory == a.args.users_env = b.args.users_env
           Apart == /\ ~IsPrefix(a.ret.user_root, b.ret.user_root)
                    /\ ~IsPrefix(b.ret.user_root, a.ret.user_root)
       IN  /\ Join(a.ret.user_root) = Join(upload_root) \o "/" \o a.args.authenticated_user
           /\ (SameDirectory /\ a.ret.current_user # b.ret.current_user) => Apart

\* C28: after the directory is loaded from any configuration string, by
\* either loader, every user's permission set is a subset of
\* {read, write, delete}
C28_PermissionsAreKnown ==
    \A i \in Loaded : \A username \in DOMAIN calls[i].ret.users :
       calls[i].ret.users[username].permissions \subseteq {"read", "write", "delete"}

\* the user specs of the modelled configuration strings that give no
\* permissions: no third field, or an empty one
NoPermissionsGiven ==
    {"bob:pw", "alice:secret", "alice/inbox:pw2", "alice:other", "alice:secret:"}

\* C29: a user whose spec in the configuration string gives no permissions
\* is loaded with exactly {read, write}, by either loader
C29_DefaultPermissions ==
    \A i \in Loaded : \A user_spec \in Range(SplitPipe(calls[i].args.users_env)) :
       user_spec \in NoPermissionsGiven
          => calls[i].ret.users[SplitColon(user_spec)[1]].permissions = {"read", "write"}

\* the password and the permission set a loader gave every user
Credentials(users) ==
    [username \in DOMAIN users |->
        [password |-> users[username].password,
         permissions |-> users[username].permissions]]

\* C39: for every configuration string that Settings.parse_sftp_users
\* accepts, UserManager._load_users_from_env loads the same usernames, each
\* with the same password and the same permission set.
C39_LoadersAgree ==
    \A i \in 1..Len(calls) : \A j \in 1..Len(calls) :
       (/\ calls[i].fn = "parse_sftp_users"
        /\ calls[i].ret.raised = NoValue
        /\ calls[j].fn = "_load_users_from_env"
        /\ calls[j].args.users_env = calls[i].args.users_env)
       => Credentials(calls[j].ret.users) = Credentials(calls[i].ret.users)

\* the directory the modelled configuration strings and key files describe:
\* the stored password and the stored keys of every user
Directory(users_env) ==
    IF users_env = "alice:secret:read+write+delete|bob:pw"
    THEN [alice |-> [password |-> "secret", keys |-> {RsaA}],
          bob |-> [password |-> "pw", keys |-> {}]]
    ELSE [alice |-> [password |-> "other", keys |-> {RsaA}]]

\* C30: authentication succeeds only if the username is in the loaded
\* directory and the password is that user's stored password, or the key has
\* the type and the key material of one of that user's stored keys; each
\* check looks at its own credential only, and an unknown username fails both
C30_AuthenticationOnlyByCredential ==
    \A i \in 1..Len(calls) :
       LET a == calls[i].args
       IN  /\ (calls[i].fn = "authenticate_password" /\ calls[i].ret)
                => (/\ a.username \in DOMAIN Directory(a.users_env)
                    /\ a.password = Directory(a.users_env)[a.username].password)
           /\ (calls[i].fn = "authenticate_key" /\ calls[i].ret)
                => (/\ a.username \in DOMAIN Directory(a.users_env)
                    /\ a.key \in Directory(a.users_env)[a.username].keys)

\* bob, who has no key, authenticated with his password, and alice with her
\* key
C30_Witness ==
    /\ Len(calls) = 2
    /\ calls[1].fn = "authenticate_password" /\ calls[1].args.username = "bob"
    /\ calls[1].ret
    /\ calls[2].fn = "authenticate_key" /\ calls[2].args.username = "alice"
    /\ calls[2].ret

\* C31: compute_fingerprint returns the same 32 bytes (64 hex characters)
\* whenever it is given the same bytes, whichever of the three modules that
\* define it is called, and whatever was called before.
C31_SameFingerprintEverywhere ==
    \A i, j \in CallsOf("compute_fingerprint") :
        LET a == calls[i]
            b == calls[j]
        IN /\ Len(a.ret.hex16 \o a.ret.rest) = 2 * 32
           /\ a.args.data = b.args.data => a.ret = b.ret

\* two different modules were given the same non-empty bytes
C31_Witness ==
    \E i, j \in CallsOf("compute_fingerprint") :
        /\ calls[i].args.module # calls[j].args.module
        /\ calls[i].args.data = "hello"
        /\ calls[j].args.data = "hello"
        /\ calls[i].ret = Sha256Digest("hello")

(***************************************************************************)
(* Claims about uploads that race with the consumer.                       *)
(***************************************************************************)
\* the write-closes that are through: closed handles and what their file
\* held when they were closed
Completed == {h \in 1..Len(handles) : handles[h].closed}

\* every event was consumed and committed, and no handle is open
Settled ==
    /\ Completed = 1..Len(handles)
    /\ pc["sftp"] = "idle"
    /\ offset["sftp"] = Len(topic["sftp"])
    /\ committed["sftp"] = offset["sftp"]

\* the bytes are in the object store under the path of their own fingerprint
StoredAsItself(handle) ==
    LET path == build_path_for_sftp_file(handle.filename,
                                         sftp_compute_fingerprint(handle.content),
                                         handle.username)
    IN  read_bytes(storage, GzPath(path)) = handle.content

\* the bytes the consumer read are those of a write-close that was through
TookCompleteFile ==
    pc["sftp"] \in {"inserted", "recorded", "stored"} =>
       \E h \in Completed : /\ handles[h].filename = loc["sftp"].file_path
                            /\ handles[h].content = loc["sftp"].payload_bytes

\* no file was removed under a handle that is still writing it
OpenFilesStay ==
    \A h \in 1..Len(handles) :
       (handles[h].writefile /\ ~handles[h].closed) => Linked(handles[h])

\* once everything is consumed, what each write-close completed is stored
\* or still at its path
NothingLost ==
    Settled => \A h \in Completed :
                  StoredAsItself(handles[h]) \/ uploads[handles[h].filename] = handles[h].content

\* C32: however a client's writes to a path interleave with the consumer's
\* work on earlier events for that path, the content of every completed
\* write-close ends up stored under its own fingerprint or still at its
\* upload path, the consumer never takes a partially written file, and it
\* never removes a file that a write handle still has open.
C32_UploadsSurviveProcessing ==
    /\ NothingLost
    /\ TookCompleteFile
    /\ OpenFilesStay

(***************************************************************************)
(* Claims about open() and the handles.                                    *)
(***************************************************************************)
\* the files of a filesystem with their content
FilesOf(fs) == {n \in fs : n.kind = "file"}

\* the step is a call of ProductionSFTPServer.open
OpenStep == session'.served = session.served + 1 /\ lastOp'.op = "open"

\* C33: a call of open() by a session whose user lacks the write permission
\* leaves every file and its content as it was, whatever the open flags.
C33_OpenNeedsWriteToChange ==
    [][(OpenStep /\ "write" \notin get_user_permissions(session.current_user))
          => FilesOf(fsys') = FilesOf(fsys)]_vars

(***************************************************************************)
(* Claims about the object store.                                          *)
(***************************************************************************)
\* the IngestionRecords of both front doors
Records == raw_api_ingest \cup raw_ingestion

\* the consumer that made the record is through with the record's message
Processed(r) ==
    Did(IF r \in raw_api_ingest THEN "api" ELSE "sftp", r.object_id[2], "commit")

C35_RetrievableAtDerivedPath ==
    calls # <<>> =>
       LET last == calls[Len(calls)]
       IN  last.fn = "AsyncFS.write" =>
              read_bytes(storage, PlainPath(last.args.path)) = last.args.data

\* C38: through write a file never grows beyond sftp_max_file_size, in any
\* open mode: after every write the file is within the limit or as large as
\* it was before, and a write that would have made it larger than the limit
\* returned SFTP_FAILURE and left the file and bytes_written as they were.
C38_WritesStayWithinLimit ==
    \A h \in 1..Len(handles) :
       LET handle == handles[h]
       IN  /\ handle.size <= Larger(handle.opened_at, sftp_max_file_size)
           /\ handle.writes # <<>> =>
                 LET last == handle.writes[Len(handle.writes)]
                 IN  SizeAfterWrite(handle.mode, last.size_before, last.offset, last.length)
                        > sftp_max_file_size
                     => /\ last.ret = "SFTP_FAILURE"
                        /\ handle.size = last.size_before
                        /\ handle.bytes_written = last.bytes_written_before

(***************************************************************************)
(* Claims about the connection.                                            *)
(***************************************************************************)
\* the credential of a check_auth_* call is one the directory accepts
Accepted(call) ==
    IF call.fn = "check_auth_password"
    THEN authenticate_password(UserManager(ConnectionEnv), call.args.username,
                               call.args.password)
    ELSE authenticate_key(UserManager(ConnectionEnv), call.args.username, call.args.key)

\* C36: authenticated_user changes only in a check_auth_* call that returns
\* AUTH_SUCCESSFUL, to the username of that call, whose credential the
\* directory accepts; a failed attempt leaves it as it was; and the root of
\* every SFTP session is the root of a user whose check succeeded before on
\* the connection.
C36_AuthenticatedUserIsChecked ==
    /\ \A i \in AuthChecks :
          LET call == calls[i]
          IN  /\ call.ret.result = "AUTH_SUCCESSFUL" =>
                    /\ Accepted(call)
                    /\ call.ret.authenticated_user = call.args.username
              /\ call.ret.result # "AUTH_SUCCESSFUL" =>
                    call.ret.authenticated_user = AuthenticatedUserAfter(i - 1)
    /\ \A j \in CallsOf("ProductionSFTPServer") :
          \E i \in AuthChecks :
             /\ i < j
             /\ calls[i].ret.result = "AUTH_SUCCESSFUL"
             /\ calls[i].args.username = calls[j].ret.current_user
             /\ calls[j].ret.user_root = UserRoot(calls[i].args.username)

\* alice got in, an attempt as bob with a wrong password failed after that,
\* and the session opened then is rooted at alice's directory
C36_Witness ==
    /\ Len(calls) = 3
    /\ calls[1].fn = "check_auth_password"
    /\ calls[1].ret.result = "AUTH_SUCCESSFUL"
    /\ calls[1].args.username = "alice"
    /\ calls[2].fn = "check_auth_password"
    /\ calls[2].args.username = "bob"
    /\ calls[2].ret.result = "AUTH_FAILED"
    /\ calls[3].fn = "ProductionSFTPServer"
    /\ calls[3].ret.user_root = <<"uploads", "alice">>

====
